---- MODULE Spec2Model ----
(***************************************************************************)
(* PowerDNS-Operator: the Zone / ClusterZone and RRset / ClusterRRset      *)
(* reconcilers, the field indexers they share, the controller work queue   *)
(* and the PowerDNS backend they drive.                                    *)
(*                                                                         *)
(* Time is counted in seconds.  A condition stores the age of its          *)
(* LastTransitionTime (saturating at FailureCooldown, beyond which the     *)
(* code no longer distinguishes ages); a requeue timer stores the seconds  *)
(* left before the key is handed back to the reconciler.                   *)
(***************************************************************************)
EXTENDS Integers, FiniteSets, Sequences, TLC

(***************************************************************************)
(* Bounds of the model                                                     *)
(***************************************************************************)
\* number of actions of the environment (user and backend outages) in a run
MaxEnvSteps == 3
\* the same, in the runs of the RRsets
MaxEnvStepsRR == 3
\* the same, in the runs of the duplicates
MaxEnvStepsDup == 2
\* the same, in the runs that start from established resources
MaxEnvStepsOne == 1
\* the same, in the runs that start while the backend does not answer
MaxEnvStepsDown == 1
\* number of actions of the environment in a run of the provider
MaxEnvStepsProv == 3
\* seconds that pass in one step of the clock of the provider
ProviderTickLen == 150
\* the same, in the runs that take the provider of a zone away
MaxEnvStepsNoClient == 2
\* the same where an edited Zone meets the zone of the backend
MaxEnvStepsZoneSync == 1
\* the same after a ClusterZone has gone Failed
MaxEnvStepsFailedParent == 2
\* highest metadata.generation a resource reaches
MaxGen == 2
\* seconds that pass in one step of the clock
TickLen == 30

(***************************************************************************)
(* Program constants                                                       *)
(***************************************************************************)
FailureCooldown == 30
ZoneNotFoundRequeue == 2
DEFAULT_TTL_FOR_NS_RECORDS == 1500
BackendDefaultTTL == 3600

SUCCEEDED_STATUS == "Succeeded"
FAILED_STATUS == "Failed"
PENDING_STATUS == "Pending"
NilStatus == "nil"

RESOURCES_FINALIZER_NAME == "resources"
METRICS_FINALIZER_NAME == "metrics"

ZoneReasonSynced == "ZoneSynced"
ZoneReasonSynchronizationFailed == "SynchronizationFailed"
ZoneReasonNSSynchronizationFailed == "NSSynchronizationFailed"
ZoneReasonDuplicated == "ZoneDuplicated"

(***************************************************************************)
(* The resources of the model.  Z1 and Z2 are Zones of the same name in    *)
(* two namespaces, CZ is the ClusterZone of that name.                     *)
(***************************************************************************)
ZoneIds == {"Z1", "Z2", "CZ"}

\* R1 and R2 are RRsets in two namespaces, CR1 is a ClusterRRset; all three
\* name the ClusterZone as their parent
RRIds == {"R1", "R2", "CR1"}

AllIds == ZoneIds \cup RRIds

ParentOf(o) == "CZ"

KindOf(o) ==
  CASE o \in {"Z1", "Z2"} -> "Zone"
    [] o = "CZ" -> "ClusterZone"
    [] o \in {"R1", "R2"} -> "RRset"
    [] OTHER -> "ClusterRRset"

NamespaceOf(o) ==
  CASE o \in {"Z1", "R1"} -> "ns1"
    [] o \in {"Z2", "R2"} -> "ns2"
    [] OTHER -> ""

ZoneNameOf(o) == "example.com"

(***************************************************************************)
(* DNS names: a name and whether it carries the trailing dot.              *)
(***************************************************************************)
Dn(b) == [base |-> b, dot |-> FALSE]

makeCanonical(n) == [n EXCEPT !.dot = TRUE]

TrimSuffixDot(n) == [n EXCEPT !.dot = FALSE]

NsA == {Dn("ns1")}
NsB == {Dn("ns1"), Dn("ns2")}
ZoneKinds == {"Native", "Master"}
\* spec.catalog is a pointer, nil when not declared; spec.soa_edit_api
\* defaults to DEFAULT
NilCatalog == [base |-> "", dot |-> FALSE]
SOAEditAPIs == {"DEFAULT", "EPOCH"}
DefaultZoneSpec ==
  [kind |-> "Native", ns |-> NsA, catalog |-> NilCatalog, soaEditAPI |-> "DEFAULT"]
ZoneSpecs ==
  {DefaultZoneSpec, [DefaultZoneSpec EXCEPT !.kind = "Master"],
   [DefaultZoneSpec EXCEPT !.ns = NsB]}

(***************************************************************************)
(* Conditions (only the Available condition is ever written).              *)
(***************************************************************************)
NoCond == [present |-> FALSE, status |-> "", reason |-> "", age |-> 0]

Cond(s, r) == [present |-> TRUE, status |-> s, reason |-> r, age |-> 0]

\* meta.SetStatusCondition: LastTransitionTime moves only when the condition
\* is new or its Status changes; Reason is always overwritten.
SetStatusCondition(old, new) ==
  IF ~old.present THEN new
  ELSE IF old.status # new.status THEN new
  ELSE [old EXCEPT !.reason = new.reason]

\* meta.RemoveStatusCondition(&conditions, "Available")
RemoveStatusCondition(old) == NoCond

(***************************************************************************)
(* Zone objects                                                            *)
(***************************************************************************)
NoZoneStatus ==
  [sync |-> NilStatus, obsGen |-> 0, cond |-> NoCond, zname |-> "", zkind |-> ""]

AbsentZone ==
  [exists |-> FALSE, deleting |-> FALSE, fin |-> {}, gen |-> 0,
   spec |-> DefaultZoneSpec, status |-> NoZoneStatus]

NewZone(sp) ==
  [exists |-> TRUE, deleting |-> FALSE, fin |-> {}, gen |-> 1,
   spec |-> sp, status |-> NoZoneStatus]

(***************************************************************************)
(* The backend: one zone (by name) with its kind and its NS RRset.         *)
(***************************************************************************)
RRTypes == {"A", "TXT"}

\* an RRset of the backend at the name the RRsets of the model resolve to:
\* its content (TTL and records) and whether it carries a comment
NoBackendRR == [present |-> FALSE, val |-> 0, comment |-> FALSE]

NoBackendZone ==
  [present |-> FALSE, kind |-> "", ns |-> {}, nsttl |-> 0,
   catalog |-> NilCatalog, soaEditAPI |-> "",
   rr |-> [t \in RRTypes |-> NoBackendRR]]

VARIABLES
  zone,      \* ZoneIds -> the Zone / ClusterZone objects in the API server
  rrset,     \* RRIds -> the RRset / ClusterRRset objects in the API server
  bzone,     \* the zone "example.com" in the backend, with its records
  up,        \* whether the backend answers
  queue,     \* keys waiting for a reconcile (events, immediate requeues)
  timer,     \* per key: -1, or the seconds left of a RequeueAfter
  gauge,     \* per key: the status labels of its gauge series
  budget,    \* environment actions left
  seen,      \* per key: the backend and generation its latest reconcile left,
             \* when that reconcile ended Succeeded; whether its latest
             \* backend attempt failed and no clock step has passed since
  last,      \* what the latest step did, when it was a reconcile
  provider,  \* the PDNSProvider object in the API server
  secret,    \* the Secret the provider names for its credentials
  server,    \* the server the provider URL leads to
  pq,        \* the work queue of the provider: an event and a requeue timer
  plast,     \* what the latest step did, when it was a provider reconcile
  resolve,   \* the latest call of GetPowerDNSClient: arguments and result
  pclient    \* the latest call of GetPDNSClient: arguments and result

\* the variables of the provider and of the client resolver
pvars == <<provider, secret, server, pq, plast, resolve, pclient>>

vars == <<zone, rrset, bzone, up, queue, timer, gauge, budget, seen, last,
          provider, secret, server, pq, plast, resolve, pclient>>


NoLast ==
  [obj |-> "", branch |-> "", calls |-> <<>>, requeue |-> FALSE,
   after |-> 0, err |-> FALSE]

NoSeen == [ok |-> FALSE, bz |-> NoBackendZone, gen |-> 0, failed |-> FALSE]

\* seen after a reconcile that left the object x: failed tells that the
\* latest backend attempt for the key, less than FailureCooldown ago, failed
NextSeen(prev, x, succeeded, gone, st) ==
  IF succeeded
  THEN [ok |-> TRUE, bz |-> st.bz, gen |-> x.gen, failed |-> FALSE]
  ELSE [NoSeen EXCEPT !.failed =
          /\ ~gone
          /\ IF st.calls # <<>> THEN x.status.sync = FAILED_STATUS
             ELSE prev.failed]


(***************************************************************************)
(* Backend calls.  A call is logged in calls whether it succeeds or not.   *)
(* A reconcile threads a record st:                                        *)
(*   z      the object as the reconciler holds it                          *)
(*   bz     the backend zone                                               *)
(*   calls  the backend calls issued so far                                *)
(*   failAt the index of the first call that finds the backend down        *)
(*          (0: none, 1: the backend is down from the start)               *)
(*   gauge  the status labels of the object's gauge series                 *)
(***************************************************************************)
WriteCalls ==
  {"Zones.Add", "Zones.Change", "Zones.Delete", "Records.Change", "Records.Delete"}

Call(st, c) == [st EXCEPT !.calls = Append(@, c)]

\* whether the next call of the reconcile reaches the backend
CallOk(st) == st.failAt = 0 \/ Len(st.calls) + 1 < st.failAt

HasCall(calls, c) == \E i \in 1..Len(calls) : calls[i] = c

HasWrite(calls) == \E i \in 1..Len(calls) : calls[i] \in WriteCalls

CountCall(calls, c) == Cardinality({i \in 1..Len(calls) : calls[i] = c})

(***************************************************************************)
(* Field indexers (SetupWithManager): a resource is indexed under its name *)
(* when its sync status is absent or Succeeded.                            *)
(***************************************************************************)
ZoneIndexed(z) ==
  z.exists /\ (z.status.sync = NilStatus \/ z.status.sync = SUCCEEDED_STATUS)

\* the objects of kind k that cl.List returns for the index key name
ListZones(zs, k, name) ==
  {p \in ZoneIds : KindOf(p) = k /\ ZoneNameOf(p) = name /\ ZoneIndexed(zs[p])}

\* the duplicate test of zoneReconcile
IsDuplicate(nNamespaced, nCluster) ==
  nNamespaced > 1 \/ (nNamespaced >= 1 /\ nCluster >= 1)

(***************************************************************************)
(* pdns_helper comparisons                                                 *)
(***************************************************************************)
Canonicals(nss) == {makeCanonical(n) : n \in nss}

\* the catalog of the spec as it is sent to the backend: canonical, nil
\* when the spec declares none
CanonicalCatalog(sp) ==
  IF sp.catalog = NilCatalog THEN NilCatalog ELSE makeCanonical(sp.catalog)

\* <<zoneIdentical, nsIdentical>>: kind, catalog and SOA-EDIT-API agree; the
\* canonical nameservers agree as sets
zoneIsIdenticalToExternalZone(sp, zoneRes, nameservers) ==
  <<sp.kind = zoneRes.kind /\ CanonicalCatalog(sp) = zoneRes.catalog
      /\ sp.soaEditAPI = zoneRes.soaEditAPI,
    Canonicals(sp.ns) = Canonicals(nameservers)>>

(***************************************************************************)
(* Gauges                                                                  *)
(***************************************************************************)
updateZonesMetrics(st) == [st EXCEPT !.gauge = @ \cup {st.z.status.sync}]

removeZonesMetrics(st) == [st EXCEPT !.gauge = {}]

(***************************************************************************)
(* zoneReconcile and its helpers                                           *)
(***************************************************************************)
\* a variant of getZoneExternalResources that takes every error for
\* "Not Found"
getZoneExternalResourcesLenient(st) ==
  LET s1 == Call(st, "Zones.Get")
  IN IF CallOk(st) THEN [st |-> s1, err |-> FALSE, nil |-> FALSE, res |-> st.bz]
     ELSE [st |-> s1, err |-> FALSE, nil |-> TRUE, res |-> NoBackendZone]

\* PDNSClient.Zones.Get through getZoneExternalResources: "Not Found" is
\* not an error and leaves an empty zone, a transport error leaves nil.
getZoneExternalResources(st) ==
  LET s1 == Call(st, "Zones.Get")
  IN IF CallOk(st) THEN [st |-> s1, err |-> FALSE, nil |-> FALSE, res |-> st.bz]
     ELSE [st |-> s1, err |-> TRUE, nil |-> TRUE, res |-> NoBackendZone]

\* PDNSClient.Zones.Add; the NS RRset of the new zone holds the canonical
\* nameservers
createZoneExternalResources(st) ==
  LET s1 == Call(st, "Zones.Add")
  IN IF CallOk(st)
     THEN [st |-> [s1 EXCEPT !.bz = [present |-> TRUE, kind |-> st.z.spec.kind,
                                     ns |-> Canonicals(st.z.spec.ns),
                                     nsttl |-> BackendDefaultTTL,
                                     catalog |-> CanonicalCatalog(st.z.spec),
                                     soaEditAPI |-> st.z.spec.soaEditAPI,
                                     rr |-> NoBackendZone.rr]],
           err |-> FALSE]
     ELSE [st |-> s1, err |-> TRUE]

\* PDNSClient.Zones.Change
updateZoneExternalResources(st) ==
  LET s1 == Call(st, "Zones.Change")
  IN IF CallOk(st)
     THEN [st |-> [s1 EXCEPT !.bz.kind = st.z.spec.kind,
                             !.bz.catalog = CanonicalCatalog(st.z.spec),
                             !.bz.soaEditAPI = st.z.spec.soaEditAPI],
           err |-> FALSE]
     ELSE [st |-> s1, err |-> TRUE]

\* PDNSClient.Records.Change on the NS RRset of the apex
updateNsOnZoneExternalResources(st, ttl) ==
  LET s1 == Call(st, "Records.Change")
  IN IF CallOk(st)
     THEN [st |-> [s1 EXCEPT !.bz.ns = Canonicals(st.z.spec.ns), !.bz.nsttl = ttl],
           err |-> FALSE]
     ELSE [st |-> s1, err |-> TRUE]

\* PDNSClient.Zones.Delete; "Not Found" is not an error
deleteZoneExternalResources(st) ==
  LET s1 == Call(st, "Zones.Delete")
  IN IF CallOk(st)
     THEN [st |-> [s1 EXCEPT !.bz = NoBackendZone], err |-> FALSE]
     ELSE [st |-> s1, err |-> TRUE]

\* a variant of zoneExternalResourcesReconcile that writes the NS RRset with
\* the default TTL whatever the backend holds
zoneExternalResourcesReconcileDefaultTTL(st, zoneRes) ==
  IF ~zoneRes.present
  THEN LET c == createZoneExternalResources(st)
       IN IF c.err
          THEN [st |-> c.st, sync |-> FAILED_STATUS, status |-> "False",
                reason |-> ZoneReasonSynchronizationFailed, err |-> FALSE]
          ELSE [st |-> c.st, sync |-> NilStatus, status |-> "True",
                reason |-> ZoneReasonSynced, err |-> FALSE]
  ELSE LET s1 == Call(st, "Records.Get")
           \* the NS RRset of the apex, filtered by name and type
           hasNs == s1.bz.ns # {}
           nameservers == {TrimSuffixDot(n) : n \in s1.bz.ns}
           ident == zoneIsIdenticalToExternalZone(st.z.spec, zoneRes, nameservers)
           ttl == DEFAULT_TTL_FOR_NS_RECORDS
           n == IF ~ident[2] THEN updateNsOnZoneExternalResources(s1, ttl)
                ELSE [st |-> s1, err |-> FALSE]
           u == IF ~ident[1] THEN updateZoneExternalResources(n.st)
                ELSE [st |-> n.st, err |-> FALSE]
       IN IF ~CallOk(st)
          THEN [st |-> s1, sync |-> NilStatus, status |-> "", reason |-> "",
                err |-> TRUE]
          ELSE IF u.err
          THEN [st |-> u.st, sync |-> FAILED_STATUS, status |-> "False",
                reason |-> ZoneReasonSynchronizationFailed, err |-> FALSE]
          ELSE IF n.err
          THEN [st |-> u.st, sync |-> FAILED_STATUS, status |-> "False",
                reason |-> ZoneReasonNSSynchronizationFailed, err |-> FALSE]
          ELSE [st |-> u.st, sync |-> NilStatus, status |-> "True",
                reason |-> ZoneReasonSynced, err |-> FALSE]

\* [st, sync, status, reason, err]: sync is NilStatus when no failure was
\* recorded, err is the error returned to zoneReconcile
zoneExternalResourcesReconcile(st, zoneRes) ==
  IF ~zoneRes.present
  THEN LET c == createZoneExternalResources(st)
       IN IF c.err
          THEN [st |-> c.st, sync |-> FAILED_STATUS, status |-> "False",
                reason |-> ZoneReasonSynchronizationFailed, err |-> FALSE]
          ELSE [st |-> c.st, sync |-> NilStatus, status |-> "True",
                reason |-> ZoneReasonSynced, err |-> FALSE]
  ELSE LET s1 == Call(st, "Records.Get")
           \* the NS RRset of the apex, filtered by name and type
           hasNs == s1.bz.ns # {}
           nameservers == {TrimSuffixDot(n) : n \in s1.bz.ns}
           ident == zoneIsIdenticalToExternalZone(st.z.spec, zoneRes, nameservers)
           ttl == IF hasNs THEN s1.bz.nsttl ELSE DEFAULT_TTL_FOR_NS_RECORDS
           n == IF ~ident[2] THEN updateNsOnZoneExternalResources(s1, ttl)
                ELSE [st |-> s1, err |-> FALSE]
           u == IF ~ident[1] THEN updateZoneExternalResources(n.st)
                ELSE [st |-> n.st, err |-> FALSE]
       IN IF ~CallOk(st)
          THEN [st |-> s1, sync |-> NilStatus, status |-> "", reason |-> "",
                err |-> TRUE]
          ELSE IF u.err
          THEN [st |-> u.st, sync |-> FAILED_STATUS, status |-> "False",
                reason |-> ZoneReasonSynchronizationFailed, err |-> FALSE]
          ELSE IF n.err
          THEN [st |-> u.st, sync |-> FAILED_STATUS, status |-> "False",
                reason |-> ZoneReasonNSSynchronizationFailed, err |-> FALSE]
          ELSE [st |-> u.st, sync |-> NilStatus, status |-> "True",
                reason |-> ZoneReasonSynced, err |-> FALSE]

\* the status patchZoneStatus writes
patchZoneStatus(st, zoneRes, nilRes, sync, cond) ==
  [st EXCEPT !.z.status =
     [sync |-> sync, obsGen |-> st.z.gen,
      cond |-> SetStatusCondition(st.z.status.cond, cond),
      zname |-> IF ~nilRes /\ zoneRes.present THEN ZoneNameOf("") ELSE "",
      zkind |-> IF nilRes THEN "" ELSE zoneRes.kind]]

\* getLastConditionTransition, as the seconds elapsed since then: an hour
\* when there is no condition
SinceLastTransition(cond) == IF cond.present THEN cond.age ELSE 3600

\* the outcome of a reconcile
Outcome(st, branch, requeue, after, err) ==
  [st |-> st, branch |-> branch, requeue |-> requeue, after |-> after, err |-> err]

\* a variant of the deletion below that lets the Zone go whatever the backend
\* answered
zoneReconcileDeletedAnyway(st) ==
  LET d == IF RESOURCES_FINALIZER_NAME \in st.z.fin
           THEN deleteZoneExternalResources(st)
           ELSE [st |-> st, err |-> FALSE]
      s1 == [d.st EXCEPT !.z.fin = @ \ {RESOURCES_FINALIZER_NAME}]
      s2 == IF METRICS_FINALIZER_NAME \in s1.z.fin
            THEN [removeZonesMetrics(s1) EXCEPT !.z.fin = @ \ {METRICS_FINALIZER_NAME}]
            ELSE s1
  IN Outcome(s2, "deleted", FALSE, 0, FALSE)

\* zoneReconcile, the object under deletion
zoneReconcileDeleted(st) ==
  LET d == IF RESOURCES_FINALIZER_NAME \in st.z.fin
           THEN deleteZoneExternalResources(st)
           ELSE [st |-> st, err |-> FALSE]
      s1 == [d.st EXCEPT !.z.fin = @ \ {RESOURCES_FINALIZER_NAME}]
      s2 == IF METRICS_FINALIZER_NAME \in s1.z.fin
            THEN [removeZonesMetrics(s1) EXCEPT !.z.fin = @ \ {METRICS_FINALIZER_NAME}]
            ELSE s1
  IN IF d.err THEN Outcome(d.st, "deleteFailed", FALSE, 0, TRUE)
     ELSE Outcome(s2, "deleted", FALSE, 0, FALSE)

\* zoneMarkDuplicate with a look at the backend first
zoneMarkDuplicateProbing(st) ==
  LET g == getZoneExternalResources(st)
      s1 == [g.st EXCEPT !.z.status =
               [sync |-> FAILED_STATUS, obsGen |-> st.z.gen,
                cond |-> SetStatusCondition(st.z.status.cond,
                                            Cond("False", ZoneReasonDuplicated)),
                zname |-> "", zkind |-> ""]]
  IN Outcome(updateZonesMetrics(s1), "duplicate", FALSE, 0, FALSE)

\* zoneReconcile, the resource found to be a duplicate: the status patch, the
\* gauge and the return
zoneMarkDuplicate(st) ==
  LET s1 == [st EXCEPT !.z.status =
               [sync |-> FAILED_STATUS, obsGen |-> st.z.gen,
                cond |-> SetStatusCondition(st.z.status.cond,
                                            Cond("False", ZoneReasonDuplicated)),
                zname |-> "", zkind |-> ""]]
  IN Outcome(updateZonesMetrics(s1), "duplicate", FALSE, 0, FALSE)

\* zoneReconcile from the uniqueness check on: zs are the objects the
\* indexers see
zoneReconcileSync(o, st, zs) ==
  LET name == ZoneNameOf(o)
      existingZones == ListZones(zs, "Zone", name)
      existingClusterZones == ListZones(zs, "ClusterZone", name)
  IN IF IsDuplicate(Cardinality(existingZones), Cardinality(existingClusterZones))
     THEN zoneMarkDuplicate(st)
     ELSE LET g == getZoneExternalResources(st)
              r == zoneExternalResourcesReconcile(g.st, g.res)
              failed == g.err \/ r.err
              s1 == IF g.err THEN g.st ELSE r.st
              sync == IF failed THEN FAILED_STATUS
                      ELSE IF r.sync = NilStatus THEN SUCCEEDED_STATUS ELSE r.sync
              cond == IF failed THEN Cond("False", ZoneReasonSynchronizationFailed)
                      ELSE Cond(r.status, r.reason)
              s2 == patchZoneStatus(s1, g.res, g.nil, sync, cond)
          IN Outcome(updateZonesMetrics(s2), "sync", FALSE, 0, FALSE)

\* zoneReconcile
zoneReconcile(o, st, isModified, isDeleted, zs) ==
  LET isInFailedStatus == st.z.status.sync = FAILED_STATUS
      s1 == IF ~isDeleted
            THEN [st EXCEPT !.z.fin = @ \cup {RESOURCES_FINALIZER_NAME}]
            ELSE st
  IN IF isDeleted THEN zoneReconcileDeleted(st)
     ELSE IF isInFailedStatus /\ ~isModified
             /\ SinceLastTransition(s1.z.status.cond) < FailureCooldown
     THEN Outcome(updateZonesMetrics(s1), "cooldown", FALSE, FailureCooldown, FALSE)
     ELSE zoneReconcileSync(o, s1, zs)

\* ZoneReconciler.Reconcile (and its ClusterZone twin)
ZoneReconcilerReconcile(o, failAt) ==
  LET z0 == zone[o]
      isModified == z0.status.obsGen # 0 /\ z0.status.obsGen # z0.gen
      isDeleted == z0.deleting
      z1 == IF ~isDeleted /\ isModified
            THEN [z0 EXCEPT !.status.cond = RemoveStatusCondition(@)]
            ELSE z0
      st == [z |-> z1, bz |-> bzone, calls |-> <<>>, gauge |-> gauge[o],
             failAt |-> failAt]
  IN zoneReconcile(o, st, isModified, isDeleted, [zone EXCEPT ![o] = z1])


(***************************************************************************)
(* RRset objects.  A name is its labels and whether it is canonical.       *)
(***************************************************************************)
ZoneLabels == <<"example", "com">>

RelativeName == [labels |-> <<"web">>, dot |-> FALSE]

CanonicalName == [labels |-> <<"web", "example", "com">>, dot |-> TRUE]

\* spec.name, spec.comment and the types an object may be created with
SpecNameOf(o) == IF o = "R2" THEN CanonicalName ELSE RelativeName

CommentOf(o) == o = "R2"

TypesOf(o) == IF o = "R2" THEN RRTypes ELSE {"A"}

\* a name that is not canonical gets the name of the zone appended
getRRsetName(name, zoneLabels) ==
  IF name.dot THEN name ELSE [labels |-> name.labels \o zoneLabels, dot |-> TRUE]

EntryName(o) == getRRsetName(SpecNameOf(o), ZoneLabels)

NoTime == [present |-> FALSE, age |-> 0]

NoRRsetStatus == [sync |-> NilStatus, obsGen |-> 0, cond |-> NoCond, lut |-> NoTime]

AbsentRRset ==
  [exists |-> FALSE, deleting |-> FALSE, fin |-> {}, gen |-> 0, owner |-> "",
   spec |-> [type |-> "A", val |-> 1], status |-> NoRRsetStatus]

NewRRset(t) ==
  [exists |-> TRUE, deleting |-> FALSE, fin |-> {}, gen |-> 1, owner |-> "",
   spec |-> [type |-> t, val |-> 1], status |-> NoRRsetStatus]

RrsetReasonZoneNotAvailable == "ZoneNotAvailable"
RrsetReasonSynchronizationFailed == "SynchronizationFailed"
RrsetReasonDuplicated == "RrsetDuplicated"
RrsetReasonSynced == "RrsetSynced"

\* a condition whose LastTransitionTime lies age seconds back
CondAt(s, r, age) == [present |-> TRUE, status |-> s, reason |-> r, age |-> age]

(***************************************************************************)
(* The RRset field indexers: "<entry name>/<type>" for a resource whose    *)
(* sync status is absent or Succeeded.                                     *)
(***************************************************************************)
RRsetIndexed(r) ==
  r.exists /\ (r.status.sync = NilStatus \/ r.status.sync = SUCCEEDED_STATUS)

RRsetKey(o, r) == <<EntryName(o), r.spec.type>>

ListRRsets(rs, k, key) ==
  {p \in RRIds : KindOf(p) = k /\ RRsetIndexed(rs[p]) /\ RRsetKey(p, rs[p]) = key}

(***************************************************************************)
(* rrsetReconcile and its helpers.  st.r is the object, st.lut the age of  *)
(* the local lastUpdateTime.                                               *)
(***************************************************************************)
updateRrsetsMetrics(st) == [st EXCEPT !.gauge = @ \cup {st.r.status.sync}]

removeRrsetMetrics(st) == [st EXCEPT !.gauge = {}]

\* TTL, records and comment agree
rrsetIsIdenticalToExternalRRset(sp, comment, ext) ==
  ext.val = sp.val /\ ext.comment = comment

\* the entries of a Records.Get answer that the backend adds for the other
\* types of the name: RRsets that carry a comment, returned without records
LeakedEntries(bz, t) ==
  {u \in RRTypes \ {t} : bz.rr[u].present /\ bz.rr[u].comment}

LeakedRecord == [present |-> TRUE, val |-> 0, comment |-> TRUE]

\* the first entry of the answer whose name is the entry name; leakFirst
\* says whether the backend lists an entry of another type first
FilteredRecord(bz, t, leakFirst) ==
  IF leakFirst /\ LeakedEntries(bz, t) # {} THEN LeakedRecord ELSE bz.rr[t]

\* [st, changed, err]
createOrUpdateRrsetExternalResources(o, st, leakFirst) ==
  LET s1 == Call(st, "Records.Get")
      getOk == CallOk(st) /\ st.bz.present
      filteredRecord == FilteredRecord(st.bz, st.r.spec.type, leakFirst)
      s2 == Call(s1, "Records.Change")
      changeOk == CallOk(s1) /\ s1.bz.present
  IN IF ~getOk THEN [st |-> s1, changed |-> FALSE, err |-> TRUE]
     ELSE IF filteredRecord.present
             /\ rrsetIsIdenticalToExternalRRset(st.r.spec, CommentOf(o), filteredRecord)
     THEN [st |-> s1, changed |-> FALSE, err |-> FALSE]
     ELSE IF ~changeOk THEN [st |-> s2, changed |-> FALSE, err |-> TRUE]
     ELSE [st |-> [s2 EXCEPT !.bz.rr[st.r.spec.type] =
                     [present |-> TRUE, val |-> st.r.spec.val,
                      comment |-> CommentOf(o)]],
           changed |-> TRUE, err |-> FALSE]

\* PDNSClient.Records.Delete
deleteRrsetExternalResources(st) ==
  LET s1 == Call(st, "Records.Delete")
  IN IF CallOk(st) /\ st.bz.present
     THEN [st |-> [s1 EXCEPT !.bz.rr[st.r.spec.type] = NoBackendRR], err |-> FALSE]
     ELSE [st |-> s1, err |-> TRUE]

\* ownObject: the controller owner reference to the parent
ownObject(o, st) == [st EXCEPT !.r.owner = ParentOf(o)]

\* rrsetReconcile, the object under deletion
rrsetReconcileDeleted(st) ==
  LET d == IF RESOURCES_FINALIZER_NAME \in st.r.fin
           THEN deleteRrsetExternalResources(st)
           ELSE [st |-> st, err |-> FALSE]
      s1 == [d.st EXCEPT !.r.fin = @ \ {RESOURCES_FINALIZER_NAME}]
      s2 == IF METRICS_FINALIZER_NAME \in s1.r.fin
            THEN [removeRrsetMetrics(s1) EXCEPT !.r.fin = @ \ {METRICS_FINALIZER_NAME}]
            ELSE s1
  IN IF d.err THEN Outcome(d.st, "deleteFailed", FALSE, 0, TRUE)
     ELSE Outcome(s2, "deleted", FALSE, 0, FALSE)

\* rrsetReconcile, the resource found to be a duplicate
rrsetMarkDuplicate(st) ==
  LET s1 == [st EXCEPT !.r.status =
               [sync |-> FAILED_STATUS, obsGen |-> st.r.gen,
                cond |-> SetStatusCondition(
                           st.r.status.cond,
                           CondAt("False", RrsetReasonDuplicated, st.lut)),
                lut |-> [present |-> TRUE, age |-> st.lut]]]
  IN Outcome(updateRrsetsMetrics(s1), "duplicate", FALSE, 0, FALSE)

\* rrsetReconcile from the uniqueness check on
rrsetReconcileSync(o, st, rs, leakFirst) ==
  LET key == RRsetKey(o, st.r)
      existingRRsets == ListRRsets(rs, "RRset", key)
      existingClusterRRsets == ListRRsets(rs, "ClusterRRset", key)
  IN IF IsDuplicate(Cardinality(existingRRsets), Cardinality(existingClusterRRsets))
     THEN rrsetMarkDuplicate(st)
     ELSE LET c == createOrUpdateRrsetExternalResources(o, st, leakFirst)
              lut == IF c.changed THEN 0 ELSE st.lut
              s1 == ownObject(o, c.st)
              s2 == [s1 EXCEPT !.r.status =
                       [sync |-> IF c.err THEN FAILED_STATUS ELSE SUCCEEDED_STATUS,
                        obsGen |-> s1.r.gen,
                        cond |-> NoCond,
                        lut |-> [present |-> TRUE, age |-> lut]]]
          IN Outcome(updateRrsetsMetrics(s2), "sync", FALSE, 0, FALSE)

\* rrsetReconcile
rrsetReconcile(o, st, isModified, isDeleted, rs, leakFirst) ==
  LET isInFailedStatus == st.r.status.sync = FAILED_STATUS
      add == ~isDeleted /\ RESOURCES_FINALIZER_NAME \notin st.r.fin
      s1 == IF add
            THEN [st EXCEPT !.r.fin = @ \cup {RESOURCES_FINALIZER_NAME}, !.lut = 0]
            ELSE st
  IN IF isDeleted THEN rrsetReconcileDeleted(st)
     ELSE IF isInFailedStatus /\ ~isModified
     THEN Outcome(updateRrsetsMetrics(s1), "failedSkip", FALSE, 0, FALSE)
     ELSE rrsetReconcileSync(o, s1, rs, leakFirst)

\* a variant of the branch below that takes no finalizer off: the RRset of a
\* deleted Zone would wait for its parent for ever
rrsetParentNotFoundKeeping(st, isDeleted) ==
  LET s3 == IF ~isDeleted
            THEN updateRrsetsMetrics(
                   [st EXCEPT !.r.status.sync = PENDING_STATUS,
                              !.r.status.obsGen = st.r.gen,
                              !.r.status.cond =
                                 SetStatusCondition(@, Cond("False",
                                                            RrsetReasonZoneNotAvailable))])
            ELSE st
  IN Outcome(s3, "zoneNotFound", FALSE, ZoneNotFoundRequeue, FALSE)

\* a variant of the branch below that gives the RRset up: Failed, and no
\* requeue
rrsetParentNotFoundFailing(st, isDeleted) ==
  LET s1 == [st EXCEPT !.r.fin = @ \ {RESOURCES_FINALIZER_NAME}]
      s2 == IF isDeleted /\ METRICS_FINALIZER_NAME \in s1.r.fin
            THEN [removeRrsetMetrics(s1) EXCEPT !.r.fin = @ \ {METRICS_FINALIZER_NAME}]
            ELSE s1
      s3 == IF ~isDeleted
            THEN updateRrsetsMetrics(
                   [s2 EXCEPT !.r.status.sync = FAILED_STATUS,
                              !.r.status.obsGen = s2.r.gen,
                              !.r.status.cond =
                                 SetStatusCondition(@, Cond("False",
                                                            RrsetReasonZoneNotAvailable))])
            ELSE s2
  IN Outcome(s3, "zoneNotFound", FALSE, 0, FALSE)

\* RRsetReconciler.Reconcile, the parent not found
rrsetParentNotFound(st, isDeleted) ==
  LET s1 == [st EXCEPT !.r.fin = @ \ {RESOURCES_FINALIZER_NAME}]
      s2 == IF isDeleted /\ METRICS_FINALIZER_NAME \in s1.r.fin
            THEN [removeRrsetMetrics(s1) EXCEPT !.r.fin = @ \ {METRICS_FINALIZER_NAME}]
            ELSE s1
      s3 == IF ~isDeleted
            THEN updateRrsetsMetrics(
                   [s2 EXCEPT !.r.status.sync = PENDING_STATUS,
                              !.r.status.obsGen = s2.r.gen,
                              !.r.status.cond =
                                 SetStatusCondition(@, Cond("False",
                                                            RrsetReasonZoneNotAvailable))])
            ELSE s2
  IN Outcome(s3, "zoneNotFound", FALSE, ZoneNotFoundRequeue, FALSE)

\* RRsetReconciler.Reconcile, the parent in Failed status, up to the point
\* where the reconcile goes on
rrsetParentFailed(st, isDeleted) ==
  LET s1 == updateRrsetsMetrics(
              [st EXCEPT !.r.status.sync = FAILED_STATUS,
                         !.r.status.obsGen = st.r.gen,
                         !.r.status.cond =
                            SetStatusCondition(@, Cond("False",
                                                       RrsetReasonZoneNotAvailable))])
  IN IF isDeleted /\ METRICS_FINALIZER_NAME \in s1.r.fin
     THEN [removeRrsetMetrics(s1) EXCEPT !.r.fin = @ \ {METRICS_FINALIZER_NAME}]
     ELSE s1

(***************************************************************************)
(* The PDNSProvider reconciler.  One provider, the Secret it names for its *)
(* credentials and the server its URL leads to.                            *)
(***************************************************************************)
PDNSProviderReasonConnected == "Connected"
PDNSProviderReasonConnectionFailed == "ConnectionFailed"
PDNSProviderReasonSecretNotFound == "SecretNotFound"
ConnectedStatus == "Connected"
AuthoritativeDaemon == "authoritative"
DefaultSecretKey == "apiKey"

\* seconds: GetInterval without spec.interval, the requeue after a failed
\* check, the age beyond which LastConnectionTime is written again
DefaultInterval == 300
ProviderFailureRequeue == 30
LastConnectionRefresh == 240

\* spec.interval: unset, or a duration in seconds (the CRD sets no minimum)
NoInterval == [set |-> FALSE, d |-> 0]
IntervalOf(d) == [set |-> TRUE, d |-> d]

\* spec.credentials.secretRef.key unset, spec.tls.caBundleRef unset,
\* spec.proxy unset
NilKey == ""
NoCABundle == "none"
NoProxy == "none"

\* caBundle is what spec.tls.caBundleRef leads to: "valid" (an object whose
\* key holds PEM certificates), "missing" (no object, or no such key) or
\* "invalid" (data that is no PEM certificate); proxy is "valid" or
\* "unparsable" for url.Parse
DefaultProviderSpec ==
  [interval |-> NoInterval, key |-> NilKey, caBundle |-> NoCABundle,
   proxy |-> NoProxy, url |-> "https://pdns", secretName |-> "pdns-secret"]

ProviderSpecs ==
  {DefaultProviderSpec,
   [DefaultProviderSpec EXCEPT !.interval = IntervalOf(0)],
   [DefaultProviderSpec EXCEPT !.interval = IntervalOf(60)],
   [DefaultProviderSpec EXCEPT !.key = "token"],
   [DefaultProviderSpec EXCEPT !.caBundle = "valid"],
   [DefaultProviderSpec EXCEPT !.caBundle = "missing"],
   [DefaultProviderSpec EXCEPT !.caBundle = "invalid"],
   [DefaultProviderSpec EXCEPT !.proxy = "valid"],
   [DefaultProviderSpec EXCEPT !.proxy = "unparsable"]}

\* daemonType "" is the nil pointer
NoDaemonType == ""

NoProviderStatus ==
  [connectionStatus |-> NilStatus, obsGen |-> 0, daemonType |-> NoDaemonType,
   lastConnectionTime |-> NoTime, cond |-> NoCond]

AbsentProvider ==
  [exists |-> FALSE, deleting |-> FALSE, fin |-> {}, gen |-> 0,
   spec |-> DefaultProviderSpec, status |-> NoProviderStatus]

NewProvider(sp) ==
  [exists |-> TRUE, deleting |-> FALSE, fin |-> {}, gen |-> 1,
   spec |-> sp, status |-> NoProviderStatus]

\* the Secret: whether it exists and, per key, no entry or the value
KeyNames == {"apiKey", "token"}
NoEntry == "<none>"
ApiKey == "k3y"

NoSecret == [exists |-> FALSE, data |-> [k \in KeyNames |-> NoEntry]]

SecretWith(k, v) ==
  [exists |-> TRUE, data |-> [x \in KeyNames |-> IF x = k THEN v ELSE NoEntry]]

Secrets ==
  {NoSecret, SecretWith("apiKey", NoEntry), SecretWith("apiKey", ""),
   SecretWith("apiKey", ApiKey), SecretWith("token", ApiKey)}

\* the server: whether it answers, the key it asks for, and the daemon_type
\* of its answer to GET /servers/{id}
DaemonTypes == {NoDaemonType, AuthoritativeDaemon, "recursor"}

Servers == [up : BOOLEAN, apiKey : {ApiKey}, daemonType : DaemonTypes]

NoPLast ==
  [branch |-> "", calls |-> <<>>, after |-> 0, err |-> FALSE, described |-> FALSE,
   daemonType |-> NoDaemonType]

\* PDNSProvider.GetInterval
GetInterval(p) == IF p.spec.interval.set THEN p.spec.interval.d ELSE DefaultInterval

\* PDNSProvider.GetCredentialsSecretKey
GetCredentialsSecretKey(p) == IF p.spec.key # NilKey THEN p.spec.key ELSE DefaultSecretKey

\* PDNSProviderReconciler.getAPIKeyFromSecret: [calls, key, err]
getAPIKeyFromSecret(p, sec) ==
  LET keyName == GetCredentialsSecretKey(p)
  IN IF p.spec.secretName = "" \/ ~sec.exists
     THEN [calls |-> <<"Secret.Get">>, key |-> "", err |-> TRUE]
     ELSE IF sec.data[keyName] = NoEntry
     THEN [calls |-> <<"Secret.Get">>, key |-> "", err |-> TRUE]
     ELSE [calls |-> <<"Secret.Get">>, key |-> sec.data[keyName], err |-> FALSE]

\* PDNSProviderReconciler.getCABundleData: whether it fails
getCABundleDataFails(p) == p.spec.caBundle = "missing"

\* the check of the daemon type of the answer
NotAuthoritative(d) == d # NoDaemonType /\ d # AuthoritativeDaemon

\* PDNSProviderReconciler.checkPowerDNSConnection:
\* [calls, err, described, daemonType]; described says that the server
\* answered the describe request
checkPowerDNSConnection(p, apiKey, srv) ==
  LET c1 == IF p.spec.caBundle # NoCABundle THEN <<"CABundle.Get">> ELSE <<>>
      c2 == Append(c1, "Servers.Get")
      failed(calls) ==
        [calls |-> calls, err |-> TRUE, described |-> FALSE,
         daemonType |-> NoDaemonType]
  IN IF p.spec.caBundle # NoCABundle /\ getCABundleDataFails(p) THEN failed(c1)
     ELSE IF p.spec.caBundle = "invalid" THEN failed(c1)
     ELSE IF p.spec.proxy = "unparsable" THEN failed(c1)
     ELSE IF ~srv.up \/ apiKey # srv.apiKey THEN failed(c2)
     ELSE IF NotAuthoritative(srv.daemonType)
     THEN [calls |-> c2, err |-> TRUE, described |-> TRUE,
           daemonType |-> srv.daemonType]
     ELSE [calls |-> c2, err |-> FALSE, described |-> TRUE,
           daemonType |-> srv.daemonType]

\* PDNSProviderReconciler.updatePDNSProviderStatus; hasInfo says that
\* serverInfo is not nil.  ConnectionStatus is assigned before
\* shouldUpdateTime reads it.
updatePDNSProviderStatus(p, status, hasInfo, daemonType, reason) ==
  LET p1 == [p EXCEPT !.status.connectionStatus = status,
                      !.status.obsGen = p.gen]
      shouldUpdateTime ==
        \/ p1.status.connectionStatus = NilStatus
        \/ p1.status.connectionStatus # status
        \/ ~p1.status.lastConnectionTime.present
        \/ p1.status.lastConnectionTime.age > LastConnectionRefresh
      p2 == IF hasInfo
            THEN [p1 EXCEPT !.status.daemonType = daemonType,
                            !.status.lastConnectionTime =
                               IF shouldUpdateTime THEN [present |-> TRUE, age |-> 0]
                               ELSE @]
            ELSE p1
      conditionStatus == IF status # ConnectedStatus THEN "False" ELSE "True"
  IN [p2 EXCEPT !.status.cond = SetStatusCondition(@, Cond(conditionStatus, reason))]

\* what a provider reconcile hands back
POutcome(p, branch, calls, after, err, described, daemonType) ==
  [p |-> p, branch |-> branch, calls |-> calls, after |-> after, err |-> err,
   described |-> described, daemonType |-> daemonType]

\* PDNSProviderReconciler.reconcilePDNSProvider
reconcilePDNSProvider(p, sec, srv) ==
  LET k == getAPIKeyFromSecret(p, sec)
      c == checkPowerDNSConnection(p, k.key, srv)
      calls == k.calls \o c.calls
  IN IF k.err
     THEN POutcome(updatePDNSProviderStatus(p, FAILED_STATUS, FALSE, NoDaemonType,
                                            PDNSProviderReasonSecretNotFound),
                   "secretNotFound", k.calls, ProviderFailureRequeue, FALSE,
                   FALSE, NoDaemonType)
     ELSE IF c.err
     THEN POutcome(updatePDNSProviderStatus(p, FAILED_STATUS, FALSE, NoDaemonType,
                                            PDNSProviderReasonConnectionFailed),
                   "connectionFailed", calls, ProviderFailureRequeue, FALSE,
                   c.described, c.daemonType)
     ELSE POutcome(updatePDNSProviderStatus(p, ConnectedStatus, TRUE, c.daemonType,
                                            PDNSProviderReasonConnected),
                   "connected", calls, GetInterval(p), FALSE,
                   c.described, c.daemonType)

\* PDNSProviderReconciler.Reconcile without the finalizer block of the
\* provider that is not being deleted
PDNSProviderReconcilerReconcileBare(p, sec, srv) ==
  IF p.deleting
  THEN POutcome([p EXCEPT !.fin = @ \ {RESOURCES_FINALIZER_NAME}], "deleted",
                <<>>, 0, FALSE, FALSE, NoDaemonType)
  ELSE reconcilePDNSProvider(p, sec, srv)

\* PDNSProviderReconciler.Reconcile
PDNSProviderReconcilerReconcile(p, sec, srv) ==
  IF p.deleting
  THEN POutcome([p EXCEPT !.fin = @ \ {RESOURCES_FINALIZER_NAME}], "deleted",
                <<>>, 0, FALSE, FALSE, NoDaemonType)
  ELSE reconcilePDNSProvider([p EXCEPT !.fin = @ \cup {RESOURCES_FINALIZER_NAME}],
                             sec, srv)

(***************************************************************************)
(* GetPowerDNSClient: the client of a zone, from the Cluster its           *)
(* clusterRef names or from the legacy client of the environment.          *)
(***************************************************************************)
\* a handle of a client is nil or names where it leads
NilHandle == "nil"
LegacyHandle == "legacy"

\* PdnsClienter{}
NoClient == [Records |-> NilHandle, Zones |-> NilHandle]

\* the client powerdns.New builds for a Cluster
ClusterClient(name) == [Records |-> name, Zones |-> name]

LegacyClients == [Records : {NilHandle, LegacyHandle}, Zones : {NilHandle, LegacyHandle}]

\* clusterRef: the nil pointer, the empty string, the name of the Cluster
\* of the model, a name no Cluster has
NilRef == "<nil>"
ClusterName == "c1"
ClusterRefs == {NilRef, "", ClusterName, "c9"}

\* the Cluster ClusterName as the API server holds it, with what its
\* references lead to: the Secret of spec.apiSecretRef (read at the key
\* "apiKey"), the file of spec.apiCAPath ("valid", "unreadable", "invalid")
\* and spec.proxyURL ("valid", "unparsable")
DefaultCluster ==
  [exists |-> TRUE, apiURL |-> "https://pdns", secretName |-> "pdns-secret",
   secret |-> SecretWith("apiKey", ApiKey), caPath |-> NoCABundle,
   proxy |-> NoProxy]

Clusters ==
  {DefaultCluster,
   [DefaultCluster EXCEPT !.exists = FALSE],
   [DefaultCluster EXCEPT !.apiURL = ""],
   [DefaultCluster EXCEPT !.secretName = ""],
   [DefaultCluster EXCEPT !.secret = NoSecret],
   [DefaultCluster EXCEPT !.secret = SecretWith("token", ApiKey)],
   [DefaultCluster EXCEPT !.secret = SecretWith("apiKey", "")],
   [DefaultCluster EXCEPT !.caPath = "valid"],
   [DefaultCluster EXCEPT !.caPath = "unreadable"],
   [DefaultCluster EXCEPT !.caPath = "invalid"],
   [DefaultCluster EXCEPT !.proxy = "valid"],
   [DefaultCluster EXCEPT !.proxy = "unparsable"]}

\* isValidClient
isValidClient(c) == c.Records # NilHandle /\ c.Zones # NilHandle

\* getAPIKey: [key, err]
getAPIKey(cluster) ==
  IF cluster.secretName = "" THEN [key |-> "", err |-> TRUE]
  ELSE IF ~cluster.secret.exists THEN [key |-> "", err |-> TRUE]
  ELSE IF cluster.secret.data["apiKey"] = NoEntry THEN [key |-> "", err |-> TRUE]
  ELSE IF cluster.secret.data["apiKey"] = "" THEN [key |-> "", err |-> TRUE]
  ELSE [key |-> cluster.secret.data["apiKey"], err |-> FALSE]

\* createHTTPClient: whether it fails
createHTTPClientFails(cluster) ==
  \/ cluster.caPath \in {"unreadable", "invalid"}
  \/ cluster.proxy = "unparsable"

\* getClusterClient: [client, err]
getClusterClient(clusterName, cluster) ==
  IF clusterName = "" THEN [client |-> NoClient, err |-> TRUE]
  ELSE IF clusterName # ClusterName \/ ~cluster.exists
  THEN [client |-> NoClient, err |-> TRUE]
  ELSE IF cluster.apiURL = "" THEN [client |-> NoClient, err |-> TRUE]
  ELSE IF getAPIKey(cluster).err THEN [client |-> NoClient, err |-> TRUE]
  ELSE IF createHTTPClientFails(cluster) THEN [client |-> NoClient, err |-> TRUE]
  ELSE [client |-> ClusterClient(clusterName), err |-> FALSE]

\* a variant of the resolver below that falls back to the legacy client
\* when the Cluster of a non-empty reference cannot be resolved
GetPowerDNSClientFallingBack(clusterRef, cluster, legacyClient) ==
  LET c == IF clusterRef # NilRef /\ clusterRef # ""
           THEN getClusterClient(clusterRef, cluster)
           ELSE [client |-> NoClient, err |-> TRUE]
  IN IF ~c.err THEN c
     ELSE IF isValidClient(legacyClient) THEN [client |-> legacyClient, err |-> FALSE]
     ELSE [client |-> NoClient, err |-> TRUE]

\* GetPowerDNSClient: [client, err]
GetPowerDNSClient(clusterRef, cluster, legacyClient) ==
  IF clusterRef # NilRef /\ clusterRef # ""
  THEN LET c == getClusterClient(clusterRef, cluster)
       IN IF c.err THEN [client |-> NoClient, err |-> TRUE] ELSE c
  ELSE IF isValidClient(legacyClient) THEN [client |-> legacyClient, err |-> FALSE]
  ELSE [client |-> NoClient, err |-> TRUE]

NoResolve ==
  [called |-> FALSE, clusterRef |-> NilRef, cluster |-> DefaultCluster,
   legacyClient |-> NoClient, client |-> NoClient, err |-> FALSE]

(***************************************************************************)
(* GetPDNSClient: the client of a zone, built from the PDNSProvider its    *)
(* providerRef names.                                                      *)
(***************************************************************************)
\* the name of the provider of the model, and the providerRef values
ProviderName == "p1"
ProviderRefs == {"", ProviderName, "p9"}

\* a variant of the function below without the check of an empty value
extractAPIKeyUnchecked(p, sec) ==
  LET secretKey == GetCredentialsSecretKey(p)
  IN IF p.spec.secretName = "" THEN [key |-> "", err |-> TRUE]
     ELSE IF ~sec.exists THEN [key |-> "", err |-> TRUE]
     ELSE IF sec.data[secretKey] = NoEntry THEN [key |-> "", err |-> TRUE]
     ELSE [key |-> sec.data[secretKey], err |-> FALSE]

\* extractAPIKey: [key, err]
extractAPIKey(p, sec) ==
  LET secretKey == GetCredentialsSecretKey(p)
  IN IF p.spec.secretName = "" THEN [key |-> "", err |-> TRUE]
     ELSE IF ~sec.exists THEN [key |-> "", err |-> TRUE]
     ELSE IF sec.data[secretKey] = NoEntry THEN [key |-> "", err |-> TRUE]
     ELSE IF sec.data[secretKey] = "" THEN [key |-> "", err |-> TRUE]
     ELSE [key |-> sec.data[secretKey], err |-> FALSE]

\* newHTTPClient: whether it fails (getCABundleData fails, the data is no
\* PEM certificate, or the proxy URL does not parse)
newHTTPClientFails(p) ==
  \/ p.spec.caBundle = "missing"
  \/ p.spec.caBundle = "invalid"
  \/ p.spec.proxy = "unparsable"

\* newPDNSClientFromProvider: [client, err]; p is the provider the API
\* server holds under the name ProviderName
newPDNSClientFromProvider(providerName, p, sec) ==
  IF providerName = "" THEN [client |-> NoClient, err |-> TRUE]
  ELSE IF providerName # ProviderName \/ ~p.exists
  THEN [client |-> NoClient, err |-> TRUE]
  ELSE IF p.spec.url = "" THEN [client |-> NoClient, err |-> TRUE]
  ELSE IF extractAPIKey(p, sec).err THEN [client |-> NoClient, err |-> TRUE]
  ELSE IF newHTTPClientFails(p) THEN [client |-> NoClient, err |-> TRUE]
  ELSE [client |-> ClusterClient(providerName), err |-> FALSE]

\* GetPDNSClient: [client, err]
GetPDNSClient(providerRef, p, sec) ==
  LET c == newPDNSClientFromProvider(providerRef, p, sec)
  IN IF c.err THEN [client |-> NoClient, err |-> TRUE] ELSE c

NoPClient ==
  [called |-> FALSE, providerRef |-> "", provider |-> AbsentProvider,
   secret |-> NoSecret, client |-> NoClient, err |-> FALSE]

(***************************************************************************)
(* The RRset reconciler, from the request to rrsetReconcile                *)
(***************************************************************************)
\* spec.providerRef of the parent
ProviderRefOf(z) == ProviderName

\* RRsetReconciler.Reconcile (and its ClusterRRset twin)
RRsetReconcilerReconcile(o, failAt, leakFirst) ==
  LET r0 == rrset[o]
      isModified == r0.status.obsGen # 0 /\ r0.status.obsGen # r0.gen
      isDeleted == r0.deleting
      addMetrics == ~isDeleted /\ METRICS_FINALIZER_NAME \notin r0.fin
      r1 == IF addMetrics THEN [r0 EXCEPT !.fin = @ \cup {METRICS_FINALIZER_NAME}]
            ELSE r0
      lut == IF addMetrics \/ ~r0.status.lut.present THEN 0 ELSE r0.status.lut.age
      r2 == IF ~isDeleted /\ isModified
            THEN [r1 EXCEPT !.status.cond = RemoveStatusCondition(@)]
            ELSE r1
      st == [r |-> r2, bz |-> bzone, calls |-> <<>>, gauge |-> gauge[o],
             failAt |-> failAt, lut |-> lut]
      parent == zone[ParentOf(o)]
      rs == [rrset EXCEPT ![o] = r2]
      pdnsClient == GetPDNSClient(ProviderRefOf(ParentOf(o)), provider, secret)
  IN IF ~parent.exists THEN rrsetParentNotFound(st, isDeleted)
     ELSE IF parent.status.sync = FAILED_STATUS
     THEN IF SinceLastTransition(r2.status.cond) < FailureCooldown /\ ~isModified
          THEN Outcome(updateRrsetsMetrics(st), "parentCooldown", FALSE,
                       FailureCooldown, FALSE)
          ELSE LET s1 == rrsetParentFailed(st, isDeleted)
               IN IF isDeleted THEN Outcome(s1, "parentFailedDeleted", FALSE, 0, FALSE)
                  ELSE IF pdnsClient.err THEN Outcome(s1, "noClient", FALSE, 0, TRUE)
                  ELSE rrsetReconcile(o, s1, isModified, isDeleted,
                                      [rs EXCEPT ![o] = s1.r], leakFirst)
     ELSE IF pdnsClient.err THEN Outcome(st, "noClient", FALSE, 0, TRUE)
     ELSE rrsetReconcile(o, st, isModified, isDeleted, rs, leakFirst)

(***************************************************************************)
(* The controller work queue                                               *)
(***************************************************************************)
Min(a, b) == IF a < b THEN a ELSE b

Max(a, b) == IF a < b THEN b ELSE a

\* the timer of a key after a reconcile that asked for RequeueAfter after
\* (0: none); an earlier pending timer is kept
NextTimer(t, after) ==
  LET t0 == IF t = 0 THEN -1 ELSE t
  IN IF after = 0 THEN t0 ELSE IF t0 = -1 THEN after ELSE Min(t0, after)

\* the queue after a reconcile of o: a write to the object raises an event,
\* an error or Requeue hands the key back
NextQueue(o, gone, changed, r) ==
  IF gone THEN queue \ {o}
  ELSE IF changed \/ r.err \/ r.requeue THEN queue \cup {o}
  ELSE queue \ {o}

\* where the backend may go down during a reconcile
FailPoints(calls) ==
  IF ~up THEN {1}
  ELSE {0} \cup (IF budget > 0 THEN 1..4 ELSE {})

Exists(o) == IF o \in ZoneIds THEN zone[o].exists ELSE rrset[o].exists

\* the keys an event of RRset r reaches: its own and, through Owns, that of
\* its controller owner
EventKeys(o, r) == {o} \cup (IF r.owner # "" /\ zone[r.owner].exists THEN {r.owner} ELSE {})

(***************************************************************************)
(* The states in which a part of the operator has nothing to do            *)
(***************************************************************************)
NoPQ == [queued |-> FALSE, timer |-> -1]

DefaultServer == [up |-> TRUE, apiKey |-> ApiKey, daemonType |-> AuthoritativeDaemon]

\* no provider, and no reconcile of one yet
ProviderIdle ==
  /\ provider = AbsentProvider
  /\ secret = NoSecret
  /\ server = DefaultServer
  /\ pq = NoPQ
  /\ plast = NoPLast

\* a provider after its Connected reconcile and one step of its clock
EstablishedProvider ==
  [exists |-> TRUE, deleting |-> FALSE, fin |-> {RESOURCES_FINALIZER_NAME},
   gen |-> 1, spec |-> DefaultProviderSpec,
   status |-> [connectionStatus |-> ConnectedStatus, obsGen |-> 1,
               daemonType |-> AuthoritativeDaemon,
               lastConnectionTime |-> [present |-> TRUE, age |-> ProviderTickLen],
               cond |-> Cond("True", PDNSProviderReasonConnected)]]

\* the provider of the zones is Connected and its Secret holds the API key
ProviderReady ==
  /\ provider = EstablishedProvider
  /\ secret = SecretWith("apiKey", ApiKey)
  /\ server = DefaultServer
  /\ pq = [queued |-> FALSE, timer |-> DefaultInterval - ProviderTickLen]
  /\ plast = NoPLast

\* no call of the resolvers yet
ResolverIdle == resolve = NoResolve /\ pclient = NoPClient

(***************************************************************************)
(* Actions of the operator                                                 *)
(***************************************************************************)
ZoneReconcile(o) ==
  /\ UNCHANGED pvars
  /\ zone[o].exists
  /\ o \in queue \/ timer[o] = 0
  /\ \E f \in FailPoints(0) :
     \E r \in {ZoneReconcilerReconcile(o, f)} :
       LET z1 == r.st.z
           gone == z1.deleting /\ z1.fin = {}
           outage == up /\ f # 0
           z0 == zone[o]
           succeeded == r.branch = "sync" /\ z1.status.sync = SUCCEEDED_STATUS
       IN /\ outage => Len(r.st.calls) >= f
          /\ zone' = [zone EXCEPT ![o] = IF gone THEN AbsentZone ELSE z1]
          /\ bzone' = r.st.bz
          /\ up' = (up /\ ~outage)
          /\ budget' = IF outage THEN budget - 1 ELSE budget
          /\ gauge' = [gauge EXCEPT ![o] = r.st.gauge]
          /\ UNCHANGED rrset
          /\ queue' = NextQueue(o, gone, z1 # z0, r)
          /\ timer' = [timer EXCEPT ![o] = IF gone THEN -1 ELSE NextTimer(@, r.after)]
          /\ seen' = [seen EXCEPT ![o] = NextSeen(@, z1, succeeded, gone, r.st)]
          /\ last' = [obj |-> o, branch |-> r.branch, calls |-> r.st.calls,
                      requeue |-> r.requeue, after |-> r.after, err |-> r.err]

\* the clock advances: conditions age, requeue timers run down
Aged(c) ==
  IF c.present THEN [c EXCEPT !.age = Min(@ + TickLen, FailureCooldown)] ELSE c

AgedTime(t) ==
  IF t.present THEN [t EXCEPT !.age = Min(@ + TickLen, FailureCooldown)] ELSE t

Tick ==
  /\ UNCHANGED pvars
  /\ zone' = [o \in ZoneIds |-> [zone[o] EXCEPT !.status.cond = Aged(@)]]
  /\ rrset' = [o \in RRIds |-> [rrset[o] EXCEPT !.status.cond = Aged(@),
                                                 !.status.lut = AgedTime(@)]]
  /\ timer' = [o \in DOMAIN timer |->
                 IF timer[o] > 0 THEN Max(timer[o] - TickLen, 0) ELSE timer[o]]
  /\ seen' = [o \in DOMAIN seen |->
                [seen[o] EXCEPT !.failed = @ /\ TickLen < FailureCooldown]]
  /\ last' = NoLast
  /\ UNCHANGED <<bzone, up, queue, gauge, budget>>

(***************************************************************************)
(* Actions of the environment                                              *)
(***************************************************************************)
CreateZone(o) ==
  /\ UNCHANGED pvars
  /\ budget > 0
  /\ ~zone[o].exists
  /\ zone' = [zone EXCEPT ![o] = NewZone(DefaultZoneSpec)]
  /\ queue' = queue \cup {o}
  /\ budget' = budget - 1
  /\ last' = NoLast
  /\ UNCHANGED <<rrset, bzone, up, timer, gauge, seen>>

ModifyZone(o) ==
  /\ UNCHANGED pvars
  /\ budget > 0
  /\ zone[o].exists /\ ~zone[o].deleting
  /\ zone[o].gen < MaxGen
  /\ \E sp \in ZoneSpecs \ {zone[o].spec} :
       zone' = [zone EXCEPT ![o].spec = sp, ![o].gen = @ + 1]
  /\ queue' = queue \cup {o}
  /\ budget' = budget - 1
  /\ last' = NoLast
  /\ UNCHANGED <<rrset, bzone, up, timer, gauge, seen>>

DeleteZone(o) ==
  /\ UNCHANGED pvars
  /\ budget > 0
  /\ zone[o].exists /\ ~zone[o].deleting
  /\ zone' = [zone EXCEPT ![o] = IF @.fin = {} THEN AbsentZone
                                 ELSE [@ EXCEPT !.deleting = TRUE]]
  /\ queue' = IF zone[o].fin = {} THEN queue \ {o} ELSE queue \cup {o}
  /\ timer' = [timer EXCEPT ![o] = IF zone[o].fin = {} THEN -1 ELSE @]
  /\ budget' = budget - 1
  /\ last' = NoLast
  /\ UNCHANGED <<rrset, bzone, up, gauge, seen>>

\* an event for o that no write of the model raises (a resync of the cache,
\* an event of an owned object)
Touch(o) ==
  /\ UNCHANGED pvars
  /\ budget > 0
  /\ Exists(o) /\ o \notin queue
  /\ queue' = queue \cup {o}
  /\ budget' = budget - 1
  /\ last' = NoLast
  /\ UNCHANGED <<zone, rrset, bzone, up, timer, gauge, seen>>

BackendDown ==
  /\ UNCHANGED pvars
  /\ budget > 0
  /\ up
  /\ up' = FALSE
  /\ budget' = budget - 1
  /\ last' = NoLast
  /\ UNCHANGED <<zone, rrset, bzone, queue, timer, gauge, seen>>

BackendUp ==
  /\ UNCHANGED pvars
  /\ ~up
  /\ up' = TRUE
  /\ last' = NoLast
  /\ UNCHANGED <<zone, rrset, bzone, queue, timer, gauge, budget, seen>>

(***************************************************************************)
(* RRsets: the reconcile, the user and the garbage collector               *)
(***************************************************************************)
\* whether the answer of Records.Get may list an entry of another type first
LeakChoices(o) ==
  IF LeakedEntries(bzone, rrset[o].spec.type) # {} THEN BOOLEAN ELSE {FALSE}

RRsetReconcile(o) ==
  /\ UNCHANGED pvars
  /\ rrset[o].exists
  /\ o \in queue \/ timer[o] = 0
  /\ \E f \in FailPoints(0), leakFirst \in LeakChoices(o) :
     \E r \in {RRsetReconcilerReconcile(o, f, leakFirst)} :
       LET r1 == r.st.r
           gone == r1.deleting /\ r1.fin = {}
           outage == up /\ f # 0
           r0 == rrset[o]
           succeeded == r.branch = "sync" /\ r1.status.sync = SUCCEEDED_STATUS
           events == IF r1 # r0 THEN EventKeys(o, r1) ELSE {}
       IN /\ outage => Len(r.st.calls) >= f
          /\ rrset' = [rrset EXCEPT ![o] = IF gone THEN AbsentRRset ELSE r1]
          /\ bzone' = r.st.bz
          /\ up' = (up /\ ~outage)
          /\ budget' = IF outage THEN budget - 1 ELSE budget
          /\ gauge' = [gauge EXCEPT ![o] = r.st.gauge]
          /\ queue' = (NextQueue(o, gone, r1 # r0, r) \cup events)
                        \ (IF gone THEN {o} ELSE {})
          /\ timer' = [timer EXCEPT ![o] = IF gone THEN -1 ELSE NextTimer(@, r.after)]
          /\ seen' = [seen EXCEPT ![o] = NextSeen(@, r1, succeeded, gone, r.st)]
          /\ last' = [obj |-> o, branch |-> r.branch, calls |-> r.st.calls,
                      requeue |-> r.requeue, after |-> r.after, err |-> r.err]
          /\ UNCHANGED zone

CreateRRset(o) ==
  /\ UNCHANGED pvars
  /\ budget > 0
  /\ ~rrset[o].exists
  /\ \E t \in TypesOf(o) : rrset' = [rrset EXCEPT ![o] = NewRRset(t)]
  /\ queue' = queue \cup {o}
  /\ budget' = budget - 1
  /\ last' = NoLast
  /\ UNCHANGED <<zone, bzone, up, timer, gauge, seen>>

\* the user changes the TTL or the records
ModifyRRset(o) ==
  /\ UNCHANGED pvars
  /\ budget > 0
  /\ rrset[o].exists /\ ~rrset[o].deleting
  /\ rrset[o].gen < MaxGen
  /\ rrset' = [rrset EXCEPT ![o].spec.val = 3 - @, ![o].gen = @ + 1]
  /\ queue' = queue \cup EventKeys(o, rrset[o])
  /\ budget' = budget - 1
  /\ last' = NoLast
  /\ UNCHANGED <<zone, bzone, up, timer, gauge, seen>>

MarkRRsetDeleted(o) ==
  /\ rrset' = [rrset EXCEPT ![o] = IF @.fin = {} THEN AbsentRRset
                                   ELSE [@ EXCEPT !.deleting = TRUE]]
  /\ queue' = IF rrset[o].fin = {} THEN queue \ {o}
              ELSE queue \cup EventKeys(o, rrset[o])
  /\ timer' = [timer EXCEPT ![o] = IF rrset[o].fin = {} THEN -1 ELSE @]
  /\ last' = NoLast

DeleteRRset(o) ==
  /\ UNCHANGED pvars
  /\ budget > 0
  /\ rrset[o].exists /\ ~rrset[o].deleting
  /\ MarkRRsetDeleted(o)
  /\ budget' = budget - 1
  /\ UNCHANGED <<zone, bzone, up, gauge, seen>>

\* the garbage collector deletes an object whose controller owner is gone
CascadeDelete(o) ==
  /\ UNCHANGED pvars
  /\ rrset[o].exists /\ ~rrset[o].deleting
  /\ rrset[o].owner # "" /\ ~zone[rrset[o].owner].exists
  /\ MarkRRsetDeleted(o)
  /\ UNCHANGED <<zone, bzone, up, gauge, budget, seen>>

(***************************************************************************)
(* Zones alone                                                             *)
(***************************************************************************)
Init ==
  /\ ProviderReady /\ ResolverIdle
  /\ zone = [o \in ZoneIds |-> AbsentZone]
  /\ bzone = NoBackendZone
  /\ up = TRUE
  /\ queue = {}
  /\ rrset = [o \in RRIds |-> AbsentRRset]
  /\ timer = [o \in AllIds |-> -1]
  /\ gauge = [o \in AllIds |-> {}]
  /\ budget = MaxEnvSteps
  /\ seen = [o \in AllIds |-> NoSeen]
  /\ last = NoLast

Next ==
  \/ \E o \in ZoneIds : ZoneReconcile(o)
  \/ Tick
  \/ \E o \in ZoneIds : CreateZone(o)
  \/ \E o \in ZoneIds : ModifyZone(o)
  \/ \E o \in ZoneIds : DeleteZone(o)
  \/ \E o \in ZoneIds : Touch(o)
  \/ BackendDown
  \/ BackendUp

Spec == Init /\ [][Next]_vars


(***************************************************************************)
(* A ClusterZone and the RRsets below it                                   *)
(***************************************************************************)
InitRR ==
  /\ ProviderReady /\ ResolverIdle
  /\ zone = [o \in ZoneIds |-> AbsentZone]
  /\ rrset = [o \in RRIds |-> AbsentRRset]
  /\ bzone = NoBackendZone
  /\ up = TRUE
  /\ queue = {}
  /\ timer = [o \in AllIds |-> -1]
  /\ gauge = [o \in AllIds |-> {}]
  /\ budget = MaxEnvStepsRR
  /\ seen = [o \in AllIds |-> NoSeen]
  /\ last = NoLast

NextRR ==
  \/ ZoneReconcile("CZ")
  \/ \E o \in RRIds : RRsetReconcile(o)
  \/ Tick
  \/ CreateZone("CZ")
  \/ DeleteZone("CZ")
  \/ \E o \in RRIds : CreateRRset(o)
  \/ \E o \in RRIds : ModifyRRset(o)
  \/ \E o \in RRIds : DeleteRRset(o)
  \/ \E o \in RRIds : CascadeDelete(o)
  \/ \E o \in RRIds \cup {"CZ"} : Touch(o)
  \/ BackendDown
  \/ BackendUp

SpecRR == InitRR /\ [][NextRR]_vars


(***************************************************************************)
(* A ClusterZone, a Zone of its name and two RRsets of one entry           *)
(***************************************************************************)
DupZones == {"Z1", "CZ"}

DupRRsets == {"R1", "R2"}

\* a Zone or ClusterZone after its creation, two reconciles and thirty seconds
EstablishedZone ==
  [NewZone(DefaultZoneSpec) EXCEPT
     !.fin = {RESOURCES_FINALIZER_NAME},
     !.status = [sync |-> SUCCEEDED_STATUS, obsGen |-> 1,
                 cond |-> [Cond("True", ZoneReasonSynced) EXCEPT !.age = FailureCooldown],
                 zname |-> ZoneNameOf("CZ"), zkind |-> DefaultZoneSpec.kind]]

EstablishedBackend ==
  [NoBackendZone EXCEPT !.present = TRUE, !.kind = DefaultZoneSpec.kind,
                        !.ns = Canonicals(DefaultZoneSpec.ns),
                        !.nsttl = BackendDefaultTTL,
                        !.soaEditAPI = DefaultZoneSpec.soaEditAPI]

InitDup ==
  /\ ProviderReady /\ ResolverIdle
  /\ zone = [o \in ZoneIds |-> IF o = "CZ" THEN EstablishedZone ELSE AbsentZone]
  /\ rrset = [o \in RRIds |-> AbsentRRset]
  /\ bzone = EstablishedBackend
  /\ up = TRUE
  /\ queue = {}
  /\ timer = [o \in AllIds |-> -1]
  /\ gauge = [o \in AllIds |-> IF o = "CZ" THEN {SUCCEEDED_STATUS} ELSE {}]
  /\ budget = MaxEnvStepsDup
  /\ seen = [o \in AllIds |-> IF o = "CZ"
                               THEN [ok |-> TRUE, bz |-> EstablishedBackend, gen |-> 1,
                                     failed |-> FALSE]
                               ELSE NoSeen]
  /\ last = NoLast

NextDup ==
  \/ \E o \in DupZones : ZoneReconcile(o)
  \/ \E o \in DupRRsets : RRsetReconcile(o)
  \/ Tick
  \/ \E o \in DupZones : CreateZone(o)
  \/ \E o \in DupZones : ModifyZone(o)
  \/ \E o \in DupZones : DeleteZone(o)
  \/ \E o \in DupRRsets : CreateRRset(o)
  \/ \E o \in DupRRsets : ModifyRRset(o)
  \/ \E o \in DupRRsets : DeleteRRset(o)
  \/ \E o \in DupRRsets : CascadeDelete(o)
  \/ \E o \in DupZones \cup DupRRsets : Touch(o)
  \/ BackendDown
  \/ BackendUp

SpecDup == InitDup /\ [][NextDup]_vars


(***************************************************************************)
(* One more resource next to established ones: every Zone, ClusterZone,    *)
(* RRset and ClusterRRset of the model may be created                      *)
(***************************************************************************)
\* an RRset of the ClusterZone after its creation, its reconciles and thirty
\* seconds
EstablishedRRset ==
  [NewRRset("A") EXCEPT
     !.fin = {RESOURCES_FINALIZER_NAME, METRICS_FINALIZER_NAME},
     !.owner = "CZ",
     !.status = [sync |-> SUCCEEDED_STATUS, obsGen |-> 1, cond |-> NoCond,
                 lut |-> [present |-> TRUE, age |-> FailureCooldown]]]

EstablishedRecords ==
  [EstablishedBackend EXCEPT
     !.rr["A"] = [present |-> TRUE, val |-> 1, comment |-> FALSE]]

\* the resources that a run starts with: a ClusterZone alone, with an RRset,
\* with a ClusterRRset, or a Zone alone
EstablishedSets == {{"CZ"}, {"CZ", "R1"}, {"CZ", "CR1"}, {"Z1"}}

BackendOf(E) ==
  IF E \cap RRIds # {} THEN EstablishedRecords ELSE EstablishedBackend

InitOne ==
  \E E \in EstablishedSets :
    /\ zone = [o \in ZoneIds |-> IF o \in E THEN EstablishedZone ELSE AbsentZone]
    /\ rrset = [o \in RRIds |-> IF o \in E THEN EstablishedRRset ELSE AbsentRRset]
    /\ bzone = BackendOf(E)
    /\ up = TRUE
    /\ queue = {}
    /\ timer = [o \in AllIds |-> -1]
    /\ gauge = [o \in AllIds |-> IF o \in E THEN {SUCCEEDED_STATUS} ELSE {}]
    /\ budget = MaxEnvStepsOne
    /\ seen = [o \in AllIds |-> IF o \in E
                                 THEN [ok |-> TRUE, bz |-> BackendOf(E), gen |-> 1,
                                       failed |-> FALSE]
                                 ELSE NoSeen]
    /\ last = NoLast
    /\ ProviderReady /\ ResolverIdle

NextOne ==
  \/ \E o \in ZoneIds : ZoneReconcile(o)
  \/ \E o \in RRIds : RRsetReconcile(o)
  \/ Tick
  \/ \E o \in ZoneIds : CreateZone(o)
  \/ \E o \in ZoneIds : ModifyZone(o)
  \/ \E o \in ZoneIds : DeleteZone(o)
  \/ \E o \in RRIds : CreateRRset(o)
  \/ \E o \in RRIds : ModifyRRset(o)
  \/ \E o \in RRIds : DeleteRRset(o)
  \/ \E o \in RRIds : CascadeDelete(o)
  \/ \E o \in AllIds : Touch(o)
  \/ BackendDown
  \/ BackendUp

SpecOne == InitOne /\ [][NextOne]_vars


(***************************************************************************)
(* An established ClusterZone and RRset while the backend does not answer  *)
(***************************************************************************)
DownZones == {"Z1", "CZ"}

DownRRsets == {"R1", "R2"}

InitDown ==
  /\ ProviderReady /\ ResolverIdle
  /\ zone = [o \in ZoneIds |-> IF o = "CZ" THEN EstablishedZone ELSE AbsentZone]
  /\ rrset = [o \in RRIds |-> IF o = "R1" THEN EstablishedRRset ELSE AbsentRRset]
  /\ bzone = EstablishedRecords
  /\ up = FALSE
  /\ queue = {}
  /\ timer = [o \in AllIds |-> -1]
  /\ gauge = [o \in AllIds |-> IF o \in {"CZ", "R1"} THEN {SUCCEEDED_STATUS} ELSE {}]
  /\ budget = MaxEnvStepsDown
  /\ seen = [o \in AllIds |-> IF o \in {"CZ", "R1"}
                               THEN [ok |-> TRUE, bz |-> EstablishedRecords, gen |-> 1,
                                     failed |-> FALSE]
                               ELSE NoSeen]
  /\ last = NoLast

NextDown ==
  \/ \E o \in DownZones : ZoneReconcile(o)
  \/ \E o \in DownRRsets : RRsetReconcile(o)
  \/ Tick
  \/ \E o \in DownZones : CreateZone(o)
  \/ \E o \in DownZones : ModifyZone(o)
  \/ \E o \in DownZones : DeleteZone(o)
  \/ \E o \in DownRRsets : CreateRRset(o)
  \/ \E o \in DownRRsets : ModifyRRset(o)
  \/ \E o \in DownRRsets : DeleteRRset(o)
  \/ \E o \in DownRRsets : CascadeDelete(o)
  \/ \E o \in DownZones \cup DownRRsets : Touch(o)
  \/ BackendDown
  \/ BackendUp

SpecDown == InitDown /\ [][NextDown]_vars

(***************************************************************************)
(* The provider on its own: the reconciler, the clock, and an environment  *)
(* that creates, changes and deletes the provider, its Secret and the      *)
(* answers of its server.                                                  *)
(***************************************************************************)
\* the variables of the Zone and RRset reconcilers
zvars == <<zone, rrset, bzone, up, queue, timer, gauge, seen, last>>

\* no Zone, no RRset, an empty backend
ZonesIdle ==
  /\ zone = [o \in ZoneIds |-> AbsentZone]
  /\ rrset = [o \in RRIds |-> AbsentRRset]
  /\ bzone = NoBackendZone
  /\ up = TRUE
  /\ queue = {}
  /\ timer = [o \in AllIds |-> -1]
  /\ gauge = [o \in AllIds |-> {}]
  /\ seen = [o \in AllIds |-> NoSeen]
  /\ last = NoLast

\* a reconcile of the provider: its key is queued or its timer has run out.
\* A write that changes the object raises an event (the controller watches
\* the provider without a predicate).
ProviderReconcile ==
  /\ provider.exists
  /\ pq.queued \/ pq.timer = 0
  /\ LET r == PDNSProviderReconcilerReconcile(provider, secret, server)
         gone == r.p.deleting /\ r.p.fin = {}
     IN /\ provider' = IF gone THEN AbsentProvider ELSE r.p
        /\ pq' = IF gone THEN NoPQ
                 ELSE [queued |-> r.p # provider \/ r.err,
                       timer |-> NextTimer(pq.timer, r.after)]
        /\ plast' = [branch |-> r.branch, calls |-> r.calls, after |-> r.after,
                     err |-> r.err, described |-> r.described,
                     daemonType |-> r.daemonType]
  /\ UNCHANGED <<secret, server, resolve, pclient, budget>>
  /\ UNCHANGED zvars

\* the clock of the provider: LastConnectionTime ages (saturating just
\* beyond LastConnectionRefresh), the requeue timer runs down
ProviderTick ==
  /\ provider.exists
  /\ provider' = [provider EXCEPT !.status.lastConnectionTime =
                    IF @.present
                    THEN [@ EXCEPT !.age = Min(@ + ProviderTickLen,
                                               LastConnectionRefresh + 1)]
                    ELSE @]
  /\ pq' = [pq EXCEPT !.timer = IF @ > 0 THEN Max(@ - ProviderTickLen, 0) ELSE @]
  /\ plast' = NoPLast
  /\ UNCHANGED <<secret, server, resolve, pclient, budget>>
  /\ UNCHANGED zvars

CreateProvider(sp) ==
  /\ budget > 0
  /\ ~provider.exists
  /\ provider' = NewProvider(sp)
  /\ pq' = [pq EXCEPT !.queued = TRUE]
  /\ budget' = budget - 1
  /\ plast' = NoPLast
  /\ UNCHANGED <<secret, server, resolve, pclient>>
  /\ UNCHANGED zvars

ModifyProvider(sp) ==
  /\ budget > 0
  /\ provider.exists /\ ~provider.deleting
  /\ provider.gen < MaxGen
  /\ sp # provider.spec
  /\ provider' = [provider EXCEPT !.spec = sp, !.gen = @ + 1]
  /\ pq' = [pq EXCEPT !.queued = TRUE]
  /\ budget' = budget - 1
  /\ plast' = NoPLast
  /\ UNCHANGED <<secret, server, resolve, pclient>>
  /\ UNCHANGED zvars

DeleteProvider ==
  /\ budget > 0
  /\ provider.exists /\ ~provider.deleting
  /\ provider' = IF provider.fin = {} THEN AbsentProvider
                 ELSE [provider EXCEPT !.deleting = TRUE]
  /\ pq' = IF provider.fin = {} THEN NoPQ ELSE [pq EXCEPT !.queued = TRUE]
  /\ budget' = budget - 1
  /\ plast' = NoPLast
  /\ UNCHANGED <<secret, server, resolve, pclient>>
  /\ UNCHANGED zvars

\* the Secret is created, changed or deleted; the controller does not watch
\* Secrets
SetSecret(x) ==
  /\ budget > 0
  /\ x # secret
  /\ secret' = x
  /\ budget' = budget - 1
  /\ plast' = NoPLast
  /\ UNCHANGED <<provider, server, pq, resolve, pclient>>
  /\ UNCHANGED zvars

\* the server goes down, comes back, or is replaced by another daemon
SetServer(x) ==
  /\ budget > 0
  /\ x # server
  /\ server' = x
  /\ budget' = budget - 1
  /\ plast' = NoPLast
  /\ UNCHANGED <<provider, secret, pq, resolve, pclient>>
  /\ UNCHANGED zvars

InitProvider ==
  /\ ZonesIdle
  /\ ResolverIdle
  /\ provider = AbsentProvider
  /\ secret \in Secrets
  /\ server \in Servers
  /\ pq = NoPQ
  /\ plast = NoPLast
  /\ budget = MaxEnvStepsProv

NextProvider ==
  \/ ProviderReconcile
  \/ ProviderTick
  \/ \E sp \in ProviderSpecs : CreateProvider(sp)
  \/ \E sp \in ProviderSpecs : ModifyProvider(sp)
  \/ DeleteProvider
  \/ \E x \in Secrets : SetSecret(x)
  \/ \E x \in Servers : SetServer(x)

SpecProvider == InitProvider /\ [][NextProvider]_vars

(***************************************************************************)
(* The resolver on its own: every call of GetPowerDNSClient                *)
(***************************************************************************)
CallGetPowerDNSClient(clusterRef, cluster, legacyClient) ==
  /\ LET r == GetPowerDNSClient(clusterRef, cluster, legacyClient)
     IN resolve' = [called |-> TRUE, clusterRef |-> clusterRef,
                    cluster |-> cluster, legacyClient |-> legacyClient,
                    client |-> r.client, err |-> r.err]
  /\ UNCHANGED <<provider, secret, server, pq, plast, pclient, budget>>
  /\ UNCHANGED zvars

InitResolve ==
  /\ ZonesIdle
  /\ ProviderIdle
  /\ ResolverIdle
  /\ budget = 0

NextResolve ==
  \E clusterRef \in ClusterRefs, cluster \in Clusters, legacyClient \in LegacyClients :
    CallGetPowerDNSClient(clusterRef, cluster, legacyClient)

SpecResolve == InitResolve /\ [][NextResolve]_vars

(***************************************************************************)
(* The provider client on its own: every call of GetPDNSClient             *)
(***************************************************************************)
\* the providers the API server may hold: none, or one of any spec, also
\* with an empty secret name (the CRD asks for the field, not for a value)
ClientProviders ==
  {AbsentProvider} \cup {NewProvider(sp) : sp \in ProviderSpecs}
    \cup {NewProvider([DefaultProviderSpec EXCEPT !.secretName = ""])}

CallGetPDNSClient(providerRef, p, sec) ==
  /\ LET r == GetPDNSClient(providerRef, p, sec)
     IN pclient' = [called |-> TRUE, providerRef |-> providerRef, provider |-> p,
                    secret |-> sec, client |-> r.client, err |-> r.err]
  /\ UNCHANGED <<provider, secret, server, pq, plast, resolve, budget>>
  /\ UNCHANGED zvars

InitClient ==
  /\ ZonesIdle
  /\ ProviderIdle
  /\ ResolverIdle
  /\ budget = 0

NextClient ==
  \E providerRef \in ProviderRefs, p \in ClientProviders, sec \in Secrets :
    CallGetPDNSClient(providerRef, p, sec)

SpecClient == InitClient /\ [][NextClient]_vars

(***************************************************************************)
(* An established ClusterZone and RRset whose provider is taken away: the  *)
(* provider is deleted or edited, or its Secret changes.                   *)
(***************************************************************************)
InitNoClient ==
  /\ zone = [o \in ZoneIds |-> IF o = "CZ" THEN EstablishedZone ELSE AbsentZone]
  /\ rrset = [o \in RRIds |-> IF o = "R1" THEN EstablishedRRset ELSE AbsentRRset]
  /\ bzone = EstablishedRecords
  /\ up = TRUE
  /\ queue = {}
  /\ timer = [o \in AllIds |-> -1]
  /\ gauge = [o \in AllIds |-> IF o \in {"CZ", "R1"} THEN {SUCCEEDED_STATUS} ELSE {}]
  /\ budget = MaxEnvStepsNoClient
  /\ seen = [o \in AllIds |-> IF o \in {"CZ", "R1"}
                               THEN [ok |-> TRUE, bz |-> EstablishedRecords, gen |-> 1,
                                     failed |-> FALSE]
                               ELSE NoSeen]
  /\ last = NoLast
  /\ ProviderReady /\ ResolverIdle

NextNoClient ==
  \/ ZoneReconcile("CZ")
  \/ RRsetReconcile("R1")
  \/ Tick
  \/ ProviderReconcile
  \/ ProviderTick
  \/ ModifyRRset("R1")
  \/ DeleteRRset("R1")
  \/ \E o \in {"CZ", "R1"} : Touch(o)
  \/ DeleteProvider
  \/ \E sp \in ProviderSpecs : ModifyProvider(sp)
  \/ \E x \in Secrets : SetSecret(x)

SpecNoClient == InitNoClient /\ [][NextNoClient]_vars

(***************************************************************************)
(* An edited ClusterZone whose zone exists in the backend: the Zone,       *)
(* waiting for its reconcile, declares any kind, nameservers, catalog and  *)
(* SOA-EDIT-API; the backend holds any of these, with or without an NS     *)
(* RRset at the apex                                                       *)
(***************************************************************************)
ZoneSyncSpecs ==
  [kind : ZoneKinds, ns : {NsA, NsB}, catalog : {NilCatalog, Dn("catalog")},
   soaEditAPI : SOAEditAPIs]

NsTTLs == {BackendDefaultTTL, 300}

ZoneSyncBackends ==
  {[EstablishedBackend EXCEPT !.kind = b.kind, !.ns = b.ns,
                              !.nsttl = IF b.ns = {} THEN 0 ELSE b.nsttl,
                              !.catalog = b.catalog,
                              !.soaEditAPI = b.soaEditAPI] :
     b \in [kind : ZoneKinds, ns : {{}, Canonicals(NsA), Canonicals(NsB)},
            nsttl : NsTTLs,
            catalog : {NilCatalog, makeCanonical(Dn("catalog"))},
            soaEditAPI : SOAEditAPIs]}

InitZoneSync ==
  /\ ProviderReady /\ ResolverIdle
  /\ \E sp \in ZoneSyncSpecs :
       zone = [o \in ZoneIds |->
                 IF o = "CZ" THEN [EstablishedZone EXCEPT !.spec = sp, !.gen = 2]
                 ELSE AbsentZone]
  /\ rrset = [o \in RRIds |-> AbsentRRset]
  /\ bzone \in ZoneSyncBackends
  /\ up = TRUE
  /\ queue = {"CZ"}
  /\ timer = [o \in AllIds |-> -1]
  /\ gauge = [o \in AllIds |-> IF o = "CZ" THEN {SUCCEEDED_STATUS} ELSE {}]
  /\ budget = MaxEnvStepsZoneSync
  /\ seen = [o \in AllIds |-> NoSeen]
  /\ last = NoLast

NextZoneSync ==
  \/ ZoneReconcile("CZ")
  \/ Tick
  \/ BackendDown
  \/ BackendUp

SpecZoneSync == InitZoneSync /\ [][NextZoneSync]_vars

(***************************************************************************)
(* An established ClusterZone and RRset after the reconcile of the         *)
(* ClusterZone that found the backend not answering: the zone is Failed    *)
(* and waits in the queue for its cool-down                                *)
(***************************************************************************)
FailedZone ==
  [EstablishedZone EXCEPT
     !.status = [sync |-> FAILED_STATUS, obsGen |-> 1,
                 cond |-> Cond("False", ZoneReasonSynchronizationFailed),
                 zname |-> "", zkind |-> ""]]

InitFailedParent ==
  /\ ProviderReady /\ ResolverIdle
  /\ zone = [o \in ZoneIds |-> IF o = "CZ" THEN FailedZone ELSE AbsentZone]
  /\ rrset = [o \in RRIds |-> IF o = "R1" THEN EstablishedRRset ELSE AbsentRRset]
  /\ bzone = EstablishedRecords
  /\ up = FALSE
  /\ queue = {"CZ"}
  /\ timer = [o \in AllIds |-> -1]
  /\ gauge = [o \in AllIds |-> IF o = "CZ" THEN {SUCCEEDED_STATUS, FAILED_STATUS}
                               ELSE IF o = "R1" THEN {SUCCEEDED_STATUS} ELSE {}]
  /\ budget = MaxEnvStepsFailedParent
  /\ seen = [o \in AllIds |->
               IF o = "CZ" THEN [NoSeen EXCEPT !.failed = TRUE]
               ELSE IF o = "R1"
               THEN [ok |-> TRUE, bz |-> EstablishedRecords, gen |-> 1,
                     failed |-> FALSE]
               ELSE NoSeen]
  /\ last = NoLast

NextFailedParent ==
  \/ ZoneReconcile("CZ")
  \/ \E o \in DownRRsets : RRsetReconcile(o)
  \/ Tick
  \/ \E o \in DownRRsets : CreateRRset(o)
  \/ \E o \in DownRRsets : ModifyRRset(o)
  \/ BackendUp

SpecFailedParent == InitFailedParent /\ [][NextFailedParent]_vars

(***************************************************************************)
(* Resources of one name that come and go: the ClusterZone is established, *)
(* the two Zones are created and any of the three is deleted.  No RRset    *)
(* takes part.                                                             *)
(***************************************************************************)
MaxEnvStepsPeers == 4

InitPeers ==
  /\ ProviderReady /\ ResolverIdle
  /\ zone = [o \in ZoneIds |-> IF o = "CZ" THEN EstablishedZone ELSE AbsentZone]
  /\ rrset = [o \in RRIds |-> AbsentRRset]
  /\ bzone = EstablishedBackend
  /\ up = TRUE
  /\ queue = {}
  /\ timer = [o \in AllIds |-> -1]
  /\ gauge = [o \in AllIds |-> IF o = "CZ" THEN {SUCCEEDED_STATUS} ELSE {}]
  /\ budget = MaxEnvStepsPeers
  /\ seen = [o \in AllIds |-> IF o = "CZ"
                               THEN [ok |-> TRUE, bz |-> EstablishedBackend, gen |-> 1,
                                     failed |-> FALSE]
                               ELSE NoSeen]
  /\ last = NoLast

NextPeers ==
  \/ \E o \in ZoneIds : ZoneReconcile(o)
  \/ Tick
  \/ \E o \in ZoneIds : CreateZone(o)
  \/ \E o \in ZoneIds : DeleteZone(o)

SpecPeers == InitPeers /\ [][NextPeers]_vars

(***************************************************************************)
(* A parent that shares its name: Zone Z1 is established and holds the     *)
(* zone of the backend; the ClusterZone of the same name, which the RRsets *)
(* name as their parent, is created and deleted.                           *)
(***************************************************************************)
MaxEnvStepsShared == 3

SharedZones == {"Z1", "CZ"}

SharedRRsets == {"R1", "CR1"}

InitShared ==
  /\ ProviderReady /\ ResolverIdle
  /\ zone = [o \in ZoneIds |-> IF o = "Z1" THEN EstablishedZone ELSE AbsentZone]
  /\ rrset = [o \in RRIds |-> AbsentRRset]
  /\ bzone = EstablishedBackend
  /\ up = TRUE
  /\ queue = {}
  /\ timer = [o \in AllIds |-> -1]
  /\ gauge = [o \in AllIds |-> IF o = "Z1" THEN {SUCCEEDED_STATUS} ELSE {}]
  /\ budget = MaxEnvStepsShared
  /\ seen = [o \in AllIds |-> IF o = "Z1"
                               THEN [ok |-> TRUE, bz |-> EstablishedBackend, gen |-> 1,
                                     failed |-> FALSE]
                               ELSE NoSeen]
  /\ last = NoLast

NextShared ==
  \/ \E o \in SharedZones : ZoneReconcile(o)
  \/ \E o \in SharedRRsets : RRsetReconcile(o)
  \/ Tick
  \/ CreateZone("CZ")
  \/ DeleteZone("CZ")
  \/ \E o \in SharedRRsets : CreateRRset(o)
  \/ \E o \in SharedRRsets : CascadeDelete(o)

SpecShared == InitShared /\ [][NextShared]_vars

(***************************************************************************)
(* Twins: two Zones of one name in two namespaces, created together and    *)
(* both waiting for their first reconcile.                                 *)
(***************************************************************************)
MaxEnvStepsTwin == 1

TwinZones == {"Z1", "Z2"}

InitTwin ==
  /\ ProviderReady /\ ResolverIdle
  /\ zone = [o \in ZoneIds |-> IF o \in TwinZones THEN NewZone(DefaultZoneSpec)
                                ELSE AbsentZone]
  /\ rrset = [o \in RRIds |-> AbsentRRset]
  /\ bzone = NoBackendZone
  /\ up = TRUE
  /\ queue = TwinZones
  /\ timer = [o \in AllIds |-> -1]
  /\ gauge = [o \in AllIds |-> {}]
  /\ budget = MaxEnvStepsTwin
  /\ seen = [o \in AllIds |-> NoSeen]
  /\ last = NoLast

NextTwin ==
  \/ \E o \in TwinZones : ZoneReconcile(o)
  \/ Tick
  \/ \E o \in TwinZones : Touch(o)
  \/ \E o \in TwinZones : DeleteZone(o)

SpecTwin == InitTwin /\ [][NextTwin]_vars




(***************************************************************************)
(* Uniqueness of zones                                                     *)
(***************************************************************************)
SucceededZones(name) ==
  {o \in ZoneIds : zone[o].exists /\ ZoneNameOf(o) = name
                   /\ zone[o].status.sync = SUCCEEDED_STATUS}

\* C1: in every reachable state, for every zone name, at most one resource
\* among the Zones of all namespaces and the ClusterZones of that name has
\* sync state Succeeded.
C1_AtMostOneSucceededZone ==
  \A o \in ZoneIds : Cardinality(SucceededZones(ZoneNameOf(o))) <= 1


\* o is Failed as a duplicate, unmodified since, next to a Succeeded resource
\* of its name
FailedDuplicateZone(o) ==
  /\ zone[o].exists /\ ~zone[o].deleting
  /\ zone[o].status.sync = FAILED_STATUS
  /\ zone[o].status.cond.reason = ZoneReasonDuplicated
  /\ zone[o].status.obsGen = zone[o].gen
  /\ SucceededZones(ZoneNameOf(o)) \ {o} # {}

\* C3: a Zone or ClusterZone marked Failed as a duplicate of a Succeeded
\* resource of its name stays Failed through every step, the retry after the
\* cool-down included, that leaves the Succeeded resource in place and changes
\* no spec.
C3_DuplicateStaysFailed ==
  [][\A o \in ZoneIds :
       (/\ FailedDuplicateZone(o)
        /\ zone'[o].exists /\ zone'[o].gen = zone[o].gen
        /\ \E p \in SucceededZones(ZoneNameOf(o)) \ {o} :
             zone'[p].exists /\ zone'[p].gen = zone[p].gen)
       => zone'[o].status.sync = FAILED_STATUS]_vars

\* C4: a reconcile of a Succeeded Zone, run while a resource of its name that
\* was created later has no sync state yet, leaves the Zone Succeeded and
\* writes nothing to the backend.
C4_FirstZoneUntouched ==
  [][\A o \in {z \in ZoneIds : KindOf(z) = "Zone"} :
       (/\ zone[o].exists /\ ~zone[o].deleting
        /\ zone[o].status.sync = SUCCEEDED_STATUS
        /\ zone[o].status.obsGen = zone[o].gen
        /\ \E p \in ZoneIds \ {o} :
             /\ zone[p].exists /\ ZoneNameOf(p) = ZoneNameOf(o)
             /\ zone[p].status.sync = NilStatus
        /\ last'.obj = o /\ up /\ up')
       => /\ zone'[o].status.sync = SUCCEEDED_STATUS
          /\ ~HasWrite(last'.calls)]_vars

\* C5: when the deletion of a Zone that is Failed as a duplicate completes,
\* the Succeeded resource of its name is still Succeeded and the backend still
\* holds the zone.
C5_DuplicateDeletionKeepsZone ==
  [][\A o \in ZoneIds :
       (/\ zone[o].exists /\ zone[o].deleting
        /\ zone[o].status.sync = FAILED_STATUS
        /\ zone[o].status.cond.reason = ZoneReasonDuplicated
        /\ SucceededZones(ZoneNameOf(o)) \ {o} # {}
        /\ bzone.present
        /\ ~zone'[o].exists)
       => /\ \A p \in SucceededZones(ZoneNameOf(o)) \ {o} :
               zone'[p].exists /\ zone'[p].status.sync = SUCCEEDED_STATUS
          /\ bzone'.present]_vars


(***************************************************************************)
(* Uniqueness of RRsets                                                    *)
(***************************************************************************)
SucceededRRsets(key) ==
  {o \in RRIds : rrset[o].exists /\ RRsetKey(o, rrset[o]) = key
                 /\ rrset[o].status.sync = SUCCEEDED_STATUS}

\* C2: in every reachable state, for every (canonical FQDN, record type)
\* pair, at most one resource among the RRsets and ClusterRRsets that resolve
\* to the pair has sync state Succeeded.
C2_AtMostOneSucceededRRset ==
  \A o \in RRIds :
    rrset[o].exists => Cardinality(SucceededRRsets(RRsetKey(o, rrset[o]))) <= 1


(***************************************************************************)
(* The reconcile of a duplicate                                            *)
(***************************************************************************)
\* the objects a step leaves as they are, o apart
OthersUnchanged(o) ==
  /\ \A z \in ZoneIds \ {o} : zone'[z] = zone[z]
  /\ \A r \in RRIds \ {o} : rrset'[r] = rrset[r]

\* C6: a reconcile that classifies a Zone, ClusterZone, RRset or ClusterRRset
\* as a duplicate issues no backend call and leaves the backend as it is; it
\* patches the status of the resource to Failed with the duplicate reason,
\* sets the Failed gauge and returns without error and without requeue.  Of
\* the object itself nothing else changes, but for the finalizers that every
\* reconcile of a resource not being deleted registers before anything else.
C6_DuplicateIsStatusOnly ==
  [][last'.branch = "duplicate" =>
       /\ last'.calls = <<>>
       /\ bzone' = bzone /\ up' = up
       /\ ~last'.err /\ ~last'.requeue /\ last'.after = 0
       /\ OthersUnchanged(last'.obj)
       /\ FAILED_STATUS \in gauge'[last'.obj]
       /\ IF last'.obj \in ZoneIds
          THEN LET z0 == zone[last'.obj]
                   z1 == zone'[last'.obj]
               IN /\ z1.status.sync = FAILED_STATUS
                  /\ z1.status.cond.status = "False"
                  /\ z1.status.cond.reason = ZoneReasonDuplicated
                  /\ z1.spec = z0.spec /\ z1.gen = z0.gen /\ z1.exists
                  /\ z1.fin = z0.fin \cup {RESOURCES_FINALIZER_NAME}
          ELSE LET r0 == rrset[last'.obj]
                   r1 == rrset'[last'.obj]
               IN /\ r1.status.sync = FAILED_STATUS
                  /\ r1.status.cond.status = "False"
                  /\ r1.status.cond.reason = RrsetReasonDuplicated
                  /\ r1.spec = r0.spec /\ r1.gen = r0.gen /\ r1.exists
                  /\ r1.owner = r0.owner
                  /\ r1.fin = r0.fin \cup {RESOURCES_FINALIZER_NAME,
                                          METRICS_FINALIZER_NAME}]_vars

\* an RRset has just been classified as a duplicate of a Succeeded RRset
C6_Witness ==
  /\ last.branch = "duplicate" /\ last.obj \in RRIds
  /\ rrset[last.obj].status.cond.reason = RrsetReasonDuplicated
  /\ \E p \in RRIds \ {last.obj} : rrset[p].status.sync = SUCCEEDED_STATUS

\* a Zone has just been classified as a duplicate
C6_ZoneClassified ==
  /\ last.branch = "duplicate" /\ last.obj \in ZoneIds
  /\ zone[last.obj].status.cond.reason = ZoneReasonDuplicated

(***************************************************************************)
(* Idempotence                                                             *)
(***************************************************************************)
\* the last reconcile of o ended in Succeeded, and neither the spec of o nor
\* the backend changed since
IdleSucceeded(o) ==
  LET x == IF o \in ZoneIds THEN zone[o] ELSE rrset[o]
  IN /\ x.exists /\ ~x.deleting
     /\ x.status.sync = SUCCEEDED_STATUS
     /\ seen[o].ok /\ seen[o].bz = bzone /\ seen[o].gen = x.gen

\* C7: when a reconcile of a Zone or an RRset ended in Succeeded and neither
\* the spec of the resource nor the backend changed since, the next reconcile
\* of the resource issues no backend write.
C7_IdleReconcileWritesNothing ==
  [][\A o \in ZoneIds \cup RRIds :
       (last'.obj = o /\ IdleSucceeded(o)) => ~HasWrite(last'.calls)]_vars


(***************************************************************************)
(* Convergence.  Nothing but an event of the object, a requeue or a timer  *)
(* starts a reconcile: an object that is in no queue and has no timer      *)
(* keeps its status until somebody touches it.                             *)
(***************************************************************************)
Settled(o) == o \notin queue /\ timer[o] = -1

\* the parent of o is Succeeded and its zone is in the reachable backend
ParentReady(o) ==
  /\ zone[ParentOf(o)].exists /\ ~zone[ParentOf(o)].deleting
  /\ zone[ParentOf(o)].status.sync = SUCCEEDED_STATUS
  /\ bzone.present /\ up

\* C8: an RRset and its parent Zone created in any order, and nothing else
\* done to either: once the Zone is Succeeded, the RRset does not come to rest
\* in another state than Succeeded.
C8_RRsetConvergesWithZone ==
  \A o \in RRIds :
    (/\ budget = MaxEnvStepsRR - 2
     /\ rrset[o].exists /\ ParentReady(o)
     /\ Settled(o))
    => rrset[o].status.sync = SUCCEEDED_STATUS

\* C9: a Zone Failed with reason SynchronizationFailed, its spec unchanged,
\* does not come to rest in that state while the backend is reachable.
C9_ZoneRecovers ==
  \A o \in ZoneIds :
    ~(/\ zone[o].exists /\ ~zone[o].deleting
      /\ zone[o].status.sync = FAILED_STATUS
      /\ zone[o].status.cond.reason = ZoneReasonSynchronizationFailed
      /\ zone[o].status.obsGen = zone[o].gen
      /\ up
      /\ Settled(o))

\* C10: an RRset that a failed backend call left Failed (the status patch of
\* that path carries no condition), its spec unchanged, does not come to rest
\* in that state while the backend is reachable and holds the zone of its
\* Succeeded parent.
C10_RRsetRecovers ==
  \A o \in RRIds :
    ~(/\ rrset[o].exists /\ ~rrset[o].deleting
      /\ rrset[o].status.sync = FAILED_STATUS
      /\ ~rrset[o].status.cond.present
      /\ rrset[o].status.obsGen = rrset[o].gen
      /\ ParentReady(o)
      /\ \A p \in RRIds \ {o} : ~rrset[p].exists
      /\ Settled(o))

(***************************************************************************)
(* Failure back-off                                                        *)
(***************************************************************************)
\* o is Failed, not being deleted, its generation observed, and its latest
\* backend attempt failed less than FailureCooldown ago
RecentlyFailed(o) ==
  LET x == IF o \in ZoneIds THEN zone[o] ELSE rrset[o]
  IN /\ x.exists /\ ~x.deleting
     /\ x.status.sync = FAILED_STATUS
     /\ x.status.obsGen = x.gen
     /\ seen[o].failed

\* C11: a reconcile of a Failed Zone or RRset whose generation has not
\* advanced, started less than 30 s after the previous failed backend
\* attempt for the resource, issues no backend call.
C11_FailedBackoff ==
  [][\A o \in AllIds :
       (last'.obj = o /\ RecentlyFailed(o)) => last'.calls = <<>>]_vars

(***************************************************************************)
(* Deletion                                                                *)
(***************************************************************************)
\* r is owned by a Zone that is gone
Orphan(r) ==
  /\ rrset[r].exists /\ rrset[r].owner # ""
  /\ ~zone[rrset[r].owner].exists

C13_ZoneDeleteError ==
  [][\A o \in ZoneIds :
       (/\ last'.obj = o /\ zone[o].deleting
        /\ RESOURCES_FINALIZER_NAME \in zone[o].fin)
       => IF up /\ up'
          THEN (/\ ~last'.err
                /\ last'.calls = <<"Zones.Delete">>
                /\ ~zone'[o].exists
                /\ ~bzone'.present)
          ELSE (/\ last'.err
                /\ last'.calls = <<"Zones.Delete">>
                /\ zone'[o] = zone[o]
                /\ bzone' = bzone
                /\ o \in queue')]_vars

\* the deletion of a Zone has just failed at the backend
C13_Witness ==
  /\ last.obj \in ZoneIds /\ last.branch = "deleteFailed" /\ last.err
  /\ zone[last.obj].deleting
  /\ RESOURCES_FINALIZER_NAME \in zone[last.obj].fin

(***************************************************************************)
(* An RRset without its parent                                             *)
(***************************************************************************)
\* C14: the reconcile of an RRset that is not being deleted and whose parent
\* Zone or ClusterZone does not exist issues no backend call, sets the sync
\* state Pending with the condition Available False of reason
\* ZoneNotAvailable, and returns no error and a requeue after 2 s.
C14_PendingWithoutParent ==
  [][\A r \in RRIds :
       (last'.obj = r /\ ~rrset[r].deleting /\ ~zone[ParentOf(r)].exists)
       => (/\ last'.calls = <<>>
           /\ bzone' = bzone
           /\ rrset'[r].exists
           /\ rrset'[r].status.sync = PENDING_STATUS
           /\ rrset'[r].status.obsGen = rrset[r].gen
           /\ rrset'[r].status.cond.present
           /\ rrset'[r].status.cond.status = "False"
           /\ rrset'[r].status.cond.reason = RrsetReasonZoneNotAvailable
           /\ PENDING_STATUS \in gauge'[r]
           /\ ~last'.err /\ ~last'.requeue
           /\ last'.after = 2
           /\ timer'[r] = 2)]_vars

\* an RRset without parent has just been set Pending
C14_Witness ==
  /\ last.obj \in RRIds /\ last.branch = "zoneNotFound"
  /\ rrset[last.obj].status.sync = PENDING_STATUS
  /\ ~zone[ParentOf(last.obj)].exists
  /\ timer[last.obj] = 2

(***************************************************************************)
(* Gauges                                                                  *)
(***************************************************************************)
\* C15: every Zone and RRset has at most one gauge series, and the status
\* label of that series is the sync state of the object.
C15_OneGaugePerObject ==
  \A o \in AllIds :
    /\ Cardinality(gauge[o]) <= 1
    /\ (Exists(o) /\ gauge[o] # {}) =>
         gauge[o] = {IF o \in ZoneIds THEN zone[o].status.sync
                     ELSE rrset[o].status.sync}


\* C16: once the reconcile that handles the deletion of an RRset has taken
\* its metrics finalizer off, the RRset has no gauge series, and none comes
\* back while the object is still terminating.
C16_NoGaugeAfterDeletion ==
  \A r \in RRIds :
    (rrset[r].exists /\ rrset[r].deleting
       /\ METRICS_FINALIZER_NAME \notin rrset[r].fin) => gauge[r] = {}


(* The provider *)
\* the latest step was a reconcile of a provider that is not being deleted
ProviderChecked == plast.branch \in {"secretNotFound", "connectionFailed", "connected"}

\* C17: a provider reconcile leaves the provider Connected (Ready=True) only
\* when the server answered the describe request with daemon type
\* "authoritative"; an answer with another daemon type, or with none, leaves
\* it Failed (Ready=False).
C17_ConnectedOnlyAuthoritative ==
  ProviderChecked =>
    /\ (provider.status.connectionStatus = ConnectedStatus
          \/ provider.status.cond.status = "True")
         => (plast.described /\ plast.daemonType = AuthoritativeDaemon)
    /\ (plast.described /\ plast.daemonType # AuthoritativeDaemon)
         => /\ provider.status.connectionStatus = FAILED_STATUS
            /\ provider.status.cond.status = "False"


\* C18: every reconcile of a provider that is not being deleted returns no
\* error and asks for a timed requeue.  After a describe request that
\* succeeded the provider is Connected with Ready=True and the delay is the
\* interval of the spec (five minutes when unset); after a failure of the
\* credentials or of the connection it is Failed with Ready=False and the
\* delay is 30 s.
C18_ProviderRequeue ==
  ProviderChecked =>
    /\ ~plast.err
    /\ plast.after > 0
    /\ pq.timer > 0
    /\ IF plast.branch = "connected"
       THEN /\ provider.status.connectionStatus = ConnectedStatus
            /\ provider.status.cond.status = "True"
            /\ plast.after = IF provider.spec.interval.set
                             THEN provider.spec.interval.d ELSE 300
       ELSE /\ provider.status.connectionStatus = FAILED_STATUS
            /\ provider.status.cond.status = "False"
            /\ plast.after = 30


\* the Secret gives the reconcile no API key: it does not exist, it has no
\* entry at the key of the spec, or the entry is empty
NoUsableKey(p, sec) ==
  \/ ~sec.exists
  \/ sec.data[GetCredentialsSecretKey(p)] = NoEntry
  \/ sec.data[GetCredentialsSecretKey(p)] = ""

\* C19: a reconcile of a provider whose Secret is missing, lacks the
\* configured key or holds an empty value at it ends Failed with reason
\* SecretNotFound and sends nothing to the server.  (A reconcile changes
\* neither the Secret nor the spec, so the state after it tells the case.)
C19_SecretNotFound ==
  (ProviderChecked /\ NoUsableKey(provider, secret)) =>
    /\ provider.status.connectionStatus = FAILED_STATUS
    /\ provider.status.cond.status = "False"
    /\ provider.status.cond.reason = PDNSProviderReasonSecretNotFound
    /\ plast.calls = <<"Secret.Get">>


(* The client resolver *)
\* a reference that can be resolved: it names a Cluster that exists and has
\* an API URL, whose Secret exists and holds a non-empty "apiKey", whose CA
\* file (if any) can be read and parsed and whose proxy URL (if any) parses
Resolvable(clusterRef, cluster) ==
  /\ clusterRef = ClusterName
  /\ cluster.exists
  /\ cluster.apiURL # ""
  /\ cluster.secretName # ""
  /\ cluster.secret.exists
  /\ cluster.secret.data["apiKey"] \notin {NoEntry, ""}
  /\ cluster.caPath \in {NoCABundle, "valid"}
  /\ cluster.proxy \in {NoProxy, "valid"}

\* C20: GetPowerDNSClient returns the client built for the Cluster when the
\* reference is non-empty and can be resolved; an error and no client, never
\* the legacy client, when it is non-empty and cannot be resolved; the legacy
\* client when the reference is nil or empty and the legacy client has both
\* Zones and Records; an error when the reference is nil or empty and the
\* legacy client lacks either.
C20_ClientResolution ==
  resolve.called =>
    LET nonEmpty == resolve.clusterRef \notin {NilRef, ""}
        resolvable == Resolvable(resolve.clusterRef, resolve.cluster)
        legacyValid == /\ resolve.legacyClient.Zones # NilHandle
                       /\ resolve.legacyClient.Records # NilHandle
    IN /\ (nonEmpty /\ resolvable) =>
            /\ ~resolve.err
            /\ resolve.client = [Records |-> resolve.clusterRef,
                                 Zones |-> resolve.clusterRef]
       /\ (nonEmpty /\ ~resolvable) =>
            /\ resolve.err
            /\ resolve.client = NoClient
       /\ (~nonEmpty /\ legacyValid) =>
            /\ ~resolve.err
            /\ resolve.client = resolve.legacyClient
       /\ (~nonEmpty /\ ~legacyValid) =>
            /\ resolve.err
            /\ resolve.client = NoClient

\* a call with a reference that cannot be resolved and a legacy client that
\* is valid has returned an error
C20_Witness ==
  /\ resolve.called
  /\ resolve.clusterRef = ClusterName
  /\ ~resolve.cluster.secret.exists
  /\ isValidClient(resolve.legacyClient)
  /\ resolve.err
  /\ resolve.client = NoClient


(* The provider client *)
\* C21: building a client from a provider reference fails, with an error
\* and a handle whose Zones and Records are nil, when the provider does not
\* exist, when its Secret does not exist, when the Secret has no entry or an
\* empty value at the configured key, or when the proxy URL does not parse;
\* when none of these and no failure of the CA bundle applies, the handle
\* has Zones and Records set.
C21_ProviderClient ==
  pclient.called =>
    LET p == pclient.provider
        sec == pclient.secret
        keyName == IF p.spec.key = NilKey THEN "apiKey" ELSE p.spec.key
        noProvider == pclient.providerRef # ProviderName \/ ~p.exists
        noSecret == p.spec.secretName = "" \/ ~sec.exists
        badKey == sec.data[keyName] \in {NoEntry, ""}
        badProxy == p.spec.proxy = "unparsable"
        badCA == p.spec.caBundle \in {"missing", "invalid"}
    IN /\ (noProvider \/ noSecret \/ badKey \/ badProxy) =>
            /\ pclient.err
            /\ pclient.client.Zones = NilHandle
            /\ pclient.client.Records = NilHandle
       /\ ~(noProvider \/ noSecret \/ badKey \/ badProxy \/ badCA) =>
            /\ ~pclient.err
            /\ pclient.client.Zones # NilHandle
            /\ pclient.client.Records # NilHandle

\* a call for a provider that exists, whose Secret holds an empty value at
\* the configured key, has failed
C21_Witness ==
  /\ pclient.called
  /\ pclient.providerRef = ProviderName
  /\ pclient.provider.exists
  /\ pclient.secret = SecretWith("apiKey", "")
  /\ pclient.provider.spec.key = NilKey
  /\ pclient.err
  /\ pclient.client = NoClient


\* C22: an RRset reconcile in which the client of the provider cannot be
\* built writes the failure to the status of the RRset (a sync state that
\* is not Succeeded, and Available=False) and returns no error.
C22_NoClientIsStatus ==
  \A r \in RRIds :
    (last.obj = r /\ last.branch = "noClient") =>
      /\ ~last.err
      /\ rrset[r].status.sync \in {FAILED_STATUS, PENDING_STATUS}
      /\ rrset[r].status.cond.present
      /\ rrset[r].status.cond.status = "False"

\* C23: a Zone reconcile whose describe call finds the backend not
\* answering issues no write call and leaves the backend as it was, sets
\* the Zone Failed with Available=False and the reason
\* SynchronizationFailed, and returns no error.
C23_DescribeFailure ==
  [][\A o \in ZoneIds :
       (/\ ~up
        /\ UNCHANGED <<rrset, budget, pvars>>
        /\ last'.obj = o
        /\ last'.branch = "sync") =>
         /\ last'.calls = <<"Zones.Get">>
         /\ ~HasWrite(last'.calls)
         /\ bzone' = bzone
         /\ zone'[o].status.sync = FAILED_STATUS
         /\ zone'[o].status.cond.present
         /\ zone'[o].status.cond.status = "False"
         /\ zone'[o].status.cond.reason = ZoneReasonSynchronizationFailed
         /\ ~last'.err
         /\ ~last'.requeue]_vars

C23_Witness ==
  /\ ~up
  /\ last.obj = "CZ"
  /\ last.branch = "sync"
  /\ last.calls = <<"Zones.Get">>
  /\ zone["CZ"].status.sync = FAILED_STATUS
  /\ ~last.err

\* the finalizers of object o and the backend call that cleans up after it
FinalizersOf(o) == IF o \in ZoneIds THEN zone[o].fin ELSE rrset[o].fin

DeleteCallOf(o) == IF o \in ZoneIds THEN "Zones.Delete" ELSE "Records.Delete"

\* C24: the resource finalizer of a Zone, ClusterZone, RRset or ClusterRRset
\* goes only in a reconcile of that object whose backend deletion succeeded,
\* and the metrics finalizer goes only in a reconcile that removed the gauge
\* of the object.
C24_FinalizersAfterCleanup ==
  [][\A o \in AllIds :
       /\ (RESOURCES_FINALIZER_NAME \in FinalizersOf(o) \ FinalizersOf(o)') =>
            /\ last'.obj = o
            /\ HasCall(last'.calls, DeleteCallOf(o))
            /\ ~last'.err
       /\ (METRICS_FINALIZER_NAME \in FinalizersOf(o) \ FinalizersOf(o)') =>
            /\ last'.obj = o
            /\ gauge'[o] = {}]_vars

\* the latest reconcile was one of RRset r that wrote its status: the
\* convergence, the duplicate mark, or Pending for a parent not found
WroteRRsetStatus(r) ==
  /\ last.obj = r
  /\ rrset[r].exists
  /\ \/ last.branch \in {"sync", "duplicate"}
     \/ last.branch = "zoneNotFound" /\ ~rrset[r].deleting

\* C25: after every RRset reconcile that writes the status, the status holds
\* an Available condition, and the condition is True exactly when the sync
\* state is Succeeded.
C25_AvailableMatchesSync ==
  \A r \in RRIds :
    WroteRRsetStatus(r) =>
      /\ rrset[r].status.sync \in {PENDING_STATUS, FAILED_STATUS, SUCCEEDED_STATUS}
      /\ rrset[r].status.cond.present
      /\ rrset[r].status.cond.status = "True" <=>
           rrset[r].status.sync = SUCCEEDED_STATUS

\* kind, catalog and SOA-EDIT-API of the spec are those of the backend zone
SameZoneAttributes(sp, bz) ==
  /\ sp.kind = bz.kind
  /\ CanonicalCatalog(sp) = bz.catalog
  /\ sp.soaEditAPI = bz.soaEditAPI

\* the nameservers of the spec are the NS records of the apex
SameNameservers(sp, bz) == Canonicals(sp.ns) = bz.ns

\* C26: a Zone reconcile that finds its zone in the backend, the backend
\* answering throughout: when the nameservers alone differ it issues exactly
\* one Records.Change, on the NS RRset of the apex with the TTL that RRset had
\* (1500 when there was none), and no Zones.Change; when kind, catalog or
\* SOA-EDIT-API alone differ it issues exactly one Zones.Change and no
\* Records.Change.
C26_SeparateChanges ==
  [][\A o \in ZoneIds :
       (/\ up /\ up'
        /\ UNCHANGED <<rrset, budget, pvars>>
        /\ last'.obj = o
        /\ last'.branch = "sync"
        /\ bzone.present) =>
         LET sp == zone[o].spec
         IN /\ (SameZoneAttributes(sp, bzone) /\ ~SameNameservers(sp, bzone)) =>
                 /\ CountCall(last'.calls, "Records.Change") = 1
                 /\ CountCall(last'.calls, "Zones.Change") = 0
                 /\ bzone'.ns = Canonicals(sp.ns)
                 /\ bzone'.nsttl = IF bzone.ns # {} THEN bzone.nsttl
                                   ELSE DEFAULT_TTL_FOR_NS_RECORDS
                 /\ SameZoneAttributes(sp, bzone')
            /\ (~SameZoneAttributes(sp, bzone) /\ SameNameservers(sp, bzone)) =>
                 /\ CountCall(last'.calls, "Zones.Change") = 1
                 /\ CountCall(last'.calls, "Records.Change") = 0
                 /\ bzone'.ns = bzone.ns
                 /\ bzone'.nsttl = bzone.nsttl
                 /\ SameZoneAttributes(sp, bzone')]_vars

\* the nameservers alone differed and the apex had an NS RRset: one
\* Records.Change that kept the TTL of the backend
C26_Witness ==
  /\ last.obj = "CZ"
  /\ last.branch = "sync"
  /\ last.calls = <<"Zones.Get", "Records.Get", "Records.Change">>
  /\ bzone.ns = Canonicals(zone["CZ"].spec.ns)
  /\ bzone.ns = Canonicals(NsB)
  /\ bzone.nsttl = 300
  /\ zone["CZ"].status.sync = SUCCEEDED_STATUS

\* RRset r is due for another attempt under a parent in Failed status: it was
\* modified, or its last condition transition is thirty seconds old
RetryUnderFailedParent(r) ==
  /\ rrset[r].exists /\ ~rrset[r].deleting
  /\ zone[ParentOf(r)].exists
  /\ zone[ParentOf(r)].status.sync = FAILED_STATUS
  /\ \/ rrset[r].status.obsGen # 0 /\ rrset[r].status.obsGen # rrset[r].gen
     \/ SinceLastTransition(rrset[r].status.cond) >= FailureCooldown

\* C27: the reconcile of an RRset that is due for another attempt under a
\* Failed parent goes on to the backend in the same reconcile: it reads the
\* records of the entry, and changes them when they are not those of the spec.
C27_RetryReachesBackend ==
  [][\A r \in RRIds :
       (/\ RetryUnderFailedParent(r)
        /\ UNCHANGED <<zone, budget, pvars>>
        /\ last'.obj = r
        /\ last'.branch \notin {"duplicate", "noClient"}) =>
         /\ HasCall(last'.calls, "Records.Get")
         /\ (/\ up'
             /\ bzone.present
             /\ ~(/\ bzone.rr[rrset[r].spec.type].present
                  /\ rrsetIsIdenticalToExternalRRset(
                        rrset[r].spec, CommentOf(r), bzone.rr[rrset[r].spec.type]))) =>
              HasCall(last'.calls, "Records.Change")]_vars

\* C28: after a Zone reconcile that created the zone in the backend and
\* ended Succeeded, the status of the Zone carries what the backend holds for
\* the zone just created: its name (which is also its id) and its kind.
C28_StatusOfCreatedZone ==
  \A o \in ZoneIds :
    (/\ last.obj = o
     /\ last.branch = "sync"
     /\ HasCall(last.calls, "Zones.Add")
     /\ zone[o].status.sync = SUCCEEDED_STATUS) =>
      /\ bzone.present
      /\ zone[o].status.zname = ZoneNameOf(o)
      /\ zone[o].status.zkind = bzone.kind

\* the stored status asks for a new LastConnectionTime: the provider was not
\* Connected, no time is recorded, or the one recorded is over four minutes
\* old
ConnectionTimeDue(p) ==
  \/ p.status.connectionStatus # ConnectedStatus
  \/ ~p.status.lastConnectionTime.present
  \/ p.status.lastConnectionTime.age > LastConnectionRefresh

\* C29: a provider reconcile whose check succeeds sets LastConnectionTime to
\* now when the stored status asks for it and leaves it alone otherwise; a
\* reconcile whose check fails never changes it.
C29_LastConnectionTime ==
  [][(/\ provider.exists /\ provider'.exists
      /\ <<provider, pq>>' # <<provider, pq>>
      /\ plast'.branch \in {"secretNotFound", "connectionFailed", "connected"}) =>
       IF plast'.branch = "connected"
       THEN IF ConnectionTimeDue(provider)
            THEN provider'.status.lastConnectionTime = [present |-> TRUE, age |-> 0]
            ELSE provider'.status.lastConnectionTime = provider.status.lastConnectionTime
       ELSE provider'.status.lastConnectionTime = provider.status.lastConnectionTime]_vars

\* C30: the lastUpdateTime of the status of an RRset changes only in a
\* reconcile of that RRset that issued a Records.Change or added a
\* finalizer; a reconcile that finds the record of the backend identical and
\* adds no finalizer leaves it as it was.
C30_LastUpdateTimeOnChange ==
  [][\A r \in RRIds :
       (/\ rrset[r].exists /\ rrset'[r].exists
        /\ last'.obj = r
        /\ rrset'[r].status.lut # rrset[r].status.lut) =>
         \/ HasCall(last'.calls, "Records.Change")
         \/ rrset'[r].fin \ rrset[r].fin # {}]_vars


(***************************************************************************)
(* Recovery of a duplicate                                                 *)
(***************************************************************************)
\* o is the only resource of its name that is left
LastOfItsName(o) ==
  \A p \in ZoneIds \ {o} : ZoneNameOf(p) = ZoneNameOf(o) => ~zone[p].exists

\* C31: a Zone that is Failed as a duplicate, its spec never changed, does not
\* come to rest in that state once every other resource of its name has been
\* deleted and the backend is reachable: a reconcile is still due that
\* creates its zone and sets it Succeeded.
C31_DuplicateRecoversAfterPeerDeletion ==
  \A o \in ZoneIds :
    ~(/\ zone[o].exists /\ ~zone[o].deleting
      /\ zone[o].gen = 1
      /\ zone[o].status.sync = FAILED_STATUS
      /\ zone[o].status.cond.reason = ZoneReasonDuplicated
      /\ LastOfItsName(o)
      /\ up
      /\ Settled(o))

(***************************************************************************)
(* Finalizer of the provider                                               *)
(***************************************************************************)
\* the step is a reconcile of the provider
ProviderReconciled ==
  /\ provider.exists
  /\ plast'.branch # ""
  /\ <<provider, pq, plast>>' # <<provider, pq, plast>>

HoldsRecordOf(bz, r) ==
  /\ bz.present
  /\ bz.rr[rrset[r].spec.type].present
  /\ \A p \in RRIds \ {r} :
        rrset[p].exists => rrset[p].spec.type # rrset[r].spec.type

\* C33: a reconcile of an RRset that takes the parent-not-found branch and
\* removes the resource finalizer issues no backend call; after it the backend
\* holds no record of that RRset.
C33_NoRecordLeftBehind ==
  [][\A r \in RRIds :
       (/\ rrset[r].exists
        /\ last'.obj = r
        /\ last'.branch = "zoneNotFound"
        /\ RESOURCES_FINALIZER_NAME \in rrset[r].fin
        /\ RESOURCES_FINALIZER_NAME \notin rrset'[r].fin) =>
         /\ last'.calls = <<>>
         /\ ~HoldsRecordOf(bzone', r)]_vars

(***************************************************************************)
(* A rejected create                                                       *)
(***************************************************************************)
\* the step is a reconcile of zone o whose Zones.Add the backend rejected
CreateRejected(o) ==
  /\ last'.obj = o
  /\ zone'[o].exists
  /\ last'.branch = "sync"
  /\ Len(last'.calls) > 0
  /\ last'.calls[Len(last'.calls)] = "Zones.Add"
  /\ ~bzone'.present

\* C34: a reconcile whose zone create the backend rejects ends with the Zone
\* Failed, the reason of its condition ZoneDuplicated, and returns no error.
C34_RejectedCreateIsDuplicate ==
  [][\A o \in ZoneIds :
       CreateRejected(o) =>
         /\ zone'[o].status.sync = FAILED_STATUS
         /\ zone'[o].status.cond.reason = ZoneReasonDuplicated
         /\ ~last'.err]_vars

(***************************************************************************)
(* The entry the spec is compared with                                     *)
(***************************************************************************)
\* the backend holds, under the name and the type of RRset r, what the spec
\* of r asks for
MatchingRecordIdentical(r) ==
  /\ bzone.rr[rrset[r].spec.type].present
  /\ rrsetIsIdenticalToExternalRRset(rrset[r].spec, CommentOf(r),
                                     bzone.rr[rrset[r].spec.type])

\* C35: a reconcile of an RRset that reads the records of the backend
\* compares the spec with the entry of its own name and type only: it issues
\* a Records.Change exactly when the backend holds no such entry or holds one
\* that differs, whatever other entries the answer lists.
C35_OnlyMatchingEntryCompared ==
  [][\A r \in RRIds :
       (/\ rrset[r].exists /\ rrset'[r].exists
        /\ last'.obj = r
        /\ last'.branch = "sync"
        /\ HasCall(last'.calls, "Records.Get")
        /\ bzone.present
        /\ up /\ up') =>
         (HasCall(last'.calls, "Records.Change") <=> ~MatchingRecordIdentical(r))]_vars

(***************************************************************************)
(* Deletion under a Failed parent                                          *)
(***************************************************************************)
\* the parent of r exists, is not being deleted and is Failed
ParentFailed(r) ==
  /\ zone[ParentOf(r)].exists /\ ~zone[ParentOf(r)].deleting
  /\ zone[ParentOf(r)].status.sync = FAILED_STATUS

\* C36: an RRset that is being deleted under a parent that exists and is
\* Failed does not come to rest with its resource finalizer still in place:
\* while parent and RRset are in no queue and have no timer, the finalizer
\* is gone.
C36_DeletionUnderFailedParent ==
  \A r \in RRIds :
    ~(/\ rrset[r].exists /\ rrset[r].deleting
      /\ RESOURCES_FINALIZER_NAME \in rrset[r].fin
      /\ ParentFailed(r)
      /\ Settled(r)
      /\ Settled(ParentOf(r)))

(***************************************************************************)
(* Recovery with the parent                                                *)
(***************************************************************************)
\* C37: an RRset that is Failed with reason ZoneNotAvailable, its spec
\* observed and unchanged, no other RRset of its type about, does not come to
\* rest in that state once its parent is Succeeded again and the backend
\* holds the zone.
C37_RRsetRecoversWithParent ==
  \A r \in RRIds :
    ~(/\ rrset[r].exists /\ ~rrset[r].deleting
      /\ rrset[r].gen = 1
      /\ rrset[r].status.sync = FAILED_STATUS
      /\ rrset[r].status.cond.present
      /\ rrset[r].status.cond.reason = RrsetReasonZoneNotAvailable
      /\ rrset[r].status.obsGen = rrset[r].gen
      /\ \A p \in RRIds \ {r} :
            rrset[p].exists => rrset[p].spec.type # rrset[r].spec.type
      /\ ParentReady(r)
      /\ Settled(r)
      /\ Settled(ParentOf(r)))

(***************************************************************************)
(* Twins                                                                   *)
(***************************************************************************)
\* nothing but reconciles and the clock has acted on the twins since their
\* creation
TwinsUndisturbed ==
  /\ budget = MaxEnvStepsTwin
  /\ \A o \in TwinZones : zone[o].exists /\ ~zone[o].deleting /\ zone[o].gen = 1

\* C38: of two Zones of one name created together, whatever the order of
\* their reconciles, never both are Succeeded, and when both have come to
\* rest exactly one of them is.
C38_ExactlyOneTwinSucceeds ==
  TwinsUndisturbed =>
    /\ Cardinality(SucceededZones(ZoneNameOf("Z1")) \cap TwinZones) <= 1
    /\ (Settled("Z1") /\ Settled("Z2")) =>
          Cardinality(SucceededZones(ZoneNameOf("Z1")) \cap TwinZones) = 1

====
